---- MODULE Spec2Model ----
(***************************************************************************)
(* A model of tofu.geom._core: Struct / Config / Rays.                     *)
(*                                                                         *)
(* Geometry is carried by an exact integer lattice: cross-section polygons *)
(* have integer vertices, points lie on the four axis half-planes          *)
(* (phi in {-90, 0, 90, 180} degrees) so that hypot and atan2 are exact,   *)
(* and rays are axis-aligned.  Floating point values that may be NaN or    *)
(* infinite are tagged pairs <<"num", v>>, <<"nan", 0>>, <<"inf", 0>>.     *)
(***************************************************************************)
EXTENDS Integers, Sequences, FiniteSets, TLC

VARIABLES
    frame2D,    \* what the native kernel does with a 2D frame when nLim > 0
    sObj,       \* the Struct under test (containment queries)
    st,         \* the last construction of a Struct: input, exception, object
    qry,        \* the last containment query and its results
    smp,        \* the last sampling of the Struct under test and its replay
    cfg,        \* the Config object under test
    clast,      \* the last Config operation: its input and what it raised
    cout,       \* what the last Config query returned
    heap,       \* the Struct objects alive: their mutable content, by reference
    held,       \* the references held by the user, the Config and its copy
    disk,       \* the Struct files saved under SavePath
    ccopy,      \* the copy made of the Config
    kern,       \* the native ray kernel's flag for a ray without valid crossing
    rays,       \* the Rays object under test
    rlast,      \* the last Rays operation: input, exception, warnings
    nops,       \* number of operations done on the Rays object
    base,       \* whether the parent class gives Rays the names get_sample reads
    sout,       \* the last sampling of the rays: what was asked and returned
    rstr,       \* the strip level of the Rays, its dsino, its Config's file
    sl          \* a Struct through strip: its dictionaries, level, last call

varsInside == <<frame2D, sObj, qry>>
varsStruct == <<st, smp, sl>>
varsConfig == <<cfg, clast, cout>>
varsLife == <<heap, held, disk, ccopy>>
varsRays == <<kern, rays, rlast, nops>>
varsSample == <<base, sout, rstr>>
vars == <<frame2D, sObj, qry, st, smp, cfg, clast, cout, heap, held, disk, ccopy,
          kern, rays, rlast, nops, base, sout, rstr, sl>>

-----------------------------------------------------------------------------
(* Bounds of the model *)

\* largest |coordinate| of a query point, in lattice units
MaxCoord == 3

-----------------------------------------------------------------------------
(* Floating point values *)

Num(v) == <<"num", v>>
NaN == <<"nan", 0>>
Inf == <<"inf", 0>>
IsNum(x) == x[1] = "num"
IsNaN(x) == x[1] = "nan"
IsInf(x) == x[1] = "inf"

Abs(n) == IF n < 0 THEN -n ELSE n
Min(S) == CHOOSE x \in S : \A y \in S : x <= y

\* the elements of a set of numbers, in increasing order
RECURSIVE SetToSeq(_)
SetToSeq(S) == IF S = {} THEN << >> ELSE <<Min(S)>> \o SetToSeq(S \ {Min(S)})

-----------------------------------------------------------------------------
(* Struct objects *)

\* Struct._checkformat_inputs_dgeom / Ves._checkformat_inputs_dgeom:
\* the conditions on Lim that depend on the class and the Type.
Struct_LimOK(Cls, Type, Lim) ==
    /\ Type \in {"Tor", "Lin"}
    /\ (Type = "Lin" => Len(Lim) > 0)
    /\ (Cls \in {"Ves", "PlasmaDomain"} /\ Type = "Tor" => Len(Lim) = 0)

\* The object built by Struct._set_dgeom (nLim is the number of Lim pairs).
Struct_new(Cls, Name, Type, Poly, Lim) ==
    [Cls |-> Cls, Name |-> Name, Type |-> Type,
     Poly |-> Poly, Lim |-> Lim, nLim |-> Len(Lim)]

\* A numpy array: None, or its number of dimensions, its shape and its
\* values (the list of values when 1D, the list of rows when 2D)
NoArr == [ndim |-> 0, shape |-> << >>, v |-> << >>]
Arr1(vals) == [ndim |-> 1, shape |-> <<Len(vals)>>, v |-> vals]
Arr2(rows, ncol) == [ndim |-> 2, shape |-> <<Len(rows), ncol>>, v |-> rows]
Arr3 == [ndim |-> 3, shape |-> <<1, 2, 3>>, v |-> << >>]

\* arr.T of a 2D array
Transpose(arr) ==
    [ndim |-> 2, shape |-> <<arr.shape[2], arr.shape[1]>>,
     v |-> [j \in 1..arr.shape[2] |-> [i \in 1..arr.shape[1] |-> arr.v[i][j]]]]

\* arr.size
Size(arr) ==
    IF arr.ndim = 1 THEN arr.shape[1]
    ELSE IF arr.ndim = 2 THEN arr.shape[1] * arr.shape[2]
    ELSE 0

\* 2 in arr.shape, 0 in arr.shape
InShape(n, arr) == \E i \in 1..Len(arr.shape) : arr.shape[i] = n

\* Struct._checkformat_inputs_dgeom, the part on Poly: a 2D array with a
\* dimension of 2, brought to the layout (2,N)
Struct_checkformat_Poly(Poly) ==
    IF Poly.ndim = 0 THEN [exc |-> "AssertionError", Poly |-> NoArr]
    ELSE IF ~(Poly.ndim = 2 /\ InShape(2, Poly))
    THEN [exc |-> "AssertionError", Poly |-> NoArr]
    ELSE [exc |-> "none",
          Poly |-> IF Poly.shape[1] # 2 THEN Transpose(Poly) ELSE Poly]

\* Struct._checkformat_inputs_dgeom, the part on Lim, with every 2D array
\* transposed
Struct_checkformat_Lim_alwaysT(Lim0, Type) ==
    LET Lim == IF Lim0.ndim = 0 THEN Arr1(<< >>) ELSE Lim0
    IN  IF ~(Lim.ndim \in {1, 2} /\ (InShape(2, Lim) \/ InShape(0, Lim)))
        THEN [exc |-> "AssertionError", Lim |-> NoArr]
        ELSE IF Lim.ndim = 1 /\ Size(Lim) \notin {0, 2}
        THEN [exc |-> "AssertionError", Lim |-> NoArr]
        ELSE [exc |-> "none",
              Lim |-> IF Lim.ndim = 1
                      THEN IF Size(Lim) = 2 THEN Arr2(<<Lim.v>>, 2) ELSE Lim
                      ELSE Transpose(Lim)]

\* Struct._checkformat_inputs_dgeom, the part on Lim, without the test
\* that a linear Struct has some
Struct_checkformat_Lim_noLinTest(Lim0, Type) ==
    LET Lim == IF Lim0.ndim = 0 THEN Arr1(<< >>) ELSE Lim0
    IN  IF ~(Lim.ndim \in {1, 2} /\ (InShape(2, Lim) \/ InShape(0, Lim)))
        THEN [exc |-> "AssertionError", Lim |-> NoArr]
        ELSE IF Lim.ndim = 1 /\ Size(Lim) \notin {0, 2}
        THEN [exc |-> "AssertionError", Lim |-> NoArr]
        ELSE [exc |-> "none",
              Lim |-> IF Lim.ndim = 1
                      THEN IF Size(Lim) = 2 THEN Arr2(<<Lim.v>>, 2) ELSE Lim
                      ELSE IF Lim.shape[2] # 2 THEN Transpose(Lim) ELSE Lim]

\* Struct._checkformat_inputs_dgeom, the part on Lim: None is the default
\* [], a pair becomes one row, a 2D array is brought to the layout (N,2),
\* and a linear Struct needs some
Struct_checkformat_Lim(Lim0, Type) ==
    LET Lim == IF Lim0.ndim = 0 THEN Arr1(<< >>) ELSE Lim0
        out == IF Lim.ndim = 1
               THEN IF Size(Lim) = 2 THEN Arr2(<<Lim.v>>, 2) ELSE Lim
               ELSE IF Lim.shape[2] # 2 THEN Transpose(Lim) ELSE Lim
    IN  IF ~(Lim.ndim \in {1, 2} /\ (InShape(2, Lim) \/ InShape(0, Lim)))
        THEN [exc |-> "AssertionError", Lim |-> NoArr]
        ELSE IF Lim.ndim = 1 /\ Size(Lim) \notin {0, 2}
        THEN [exc |-> "AssertionError", Lim |-> NoArr]
        ELSE IF Type = "Lin" /\ Size(out) = 0
        THEN [exc |-> "AssertionError", Lim |-> NoArr]
        ELSE [exc |-> "none", Lim |-> out]

\* the occurrence windows of a Lim array in canonical form: its rows, none
\* if the array is empty
Windows(Lim) == IF Size(Lim) = 0 THEN << >> ELSE Lim.v

\* Cross-sections used by the model, as (x, y) vertex lists.
\* PolyBox: R (or Y) in [2,6], Z in [-2,2];  PolyEll: an L-shaped contour.
PolyBox == << <<2, -2>>, <<6, -2>>, <<6, 2>>, <<2, 2>> >>
PolyEll == << <<2, -2>>, <<6, -2>>, <<6, 0>>, <<4, 0>>, <<4, 2>>, <<2, 2>> >>

\* The Struct objects the containment queries are run on.
StructCatalogue ==
    { Struct_new("PlasmaDomain", "Tor0", "Tor", PolyBox, << >>),
      Struct_new("Ves", "TorL", "Tor", PolyEll, << >>),
      Struct_new("PFC", "Tor1", "Tor", PolyBox, << <<-90, 0>> >>),
      Struct_new("PFC", "TorW", "Tor", PolyBox, << <<180, 0>> >>),
      Struct_new("PFC", "Tor2", "Tor", PolyEll, << <<0, 90>>, <<180, 270>> >>),
      Struct_new("Ves", "Lin1", "Lin", PolyBox, << <<-1, 1>> >>),
      Struct_new("PFC", "Lin2", "Lin", PolyEll, << <<-3, -1>>, <<1, 2>> >>) }

\* the vertices of a polygon stored in the layout (2,N)
VertexList(Poly) == [i \in 1..Poly.shape[2] |-> <<Poly.v[1][i], Poly.v[2][i]>>]

\* _comp._Struct_set_Poly: the polygon model; a contour of fewer than 3
\* vertices is rejected, the polygon is kept in the layout (2,N)
Struct_set_Poly(Poly) ==
    IF Poly.shape[2] < 3 THEN [exc |-> "AssertionError", Poly |-> NoArr]
    ELSE [exc |-> "none", Poly |-> Poly]

\* Struct._set_dgeom without the check of the format of Poly
Struct_init_rawPoly(Cls, Name, Type, Poly, Lim) ==
    LET l == Struct_checkformat_Lim(Lim, Type)
    IN  IF Poly.ndim # 2 \/ l.exc # "none"
             \/ (Cls \in {"Ves", "PlasmaDomain"} /\ Type = "Tor" /\ Size(l.Lim) # 0)
        THEN [exc |-> "AssertionError", Poly |-> NoArr, Lim |-> NoArr,
              obj |-> Struct_new(Cls, Name, Type, << >>, << >>)]
        ELSE [exc |-> "none", Poly |-> Poly, Lim |-> l.Lim,
              obj |-> Struct_new(Cls, Name, Type,
                                 [i \in 1..Len(Poly.v) |-> Poly.v[i]], Windows(l.Lim))]

\* tofu.geom.<Cls>(Name=Name, Type=Type, Poly=Poly, Lim=Lim), i.e.
\* Struct._init / Struct._set_dgeom: the exception raised, or the polygon
\* and the limits stored and the object (a toroidal Ves takes no Lim)
Struct_init(Cls, Name, Type, Poly, Lim) ==
    LET p == Struct_checkformat_Poly(Poly)
        l == Struct_checkformat_Lim(Lim, Type)
        failed == [exc |-> "AssertionError", Poly |-> NoArr, Lim |-> NoArr,
                   obj |-> Struct_new(Cls, Name, Type, << >>, << >>)]
    IN  IF p.exc # "none" \/ l.exc # "none" THEN failed
        ELSE IF Cls \in {"Ves", "PlasmaDomain"} /\ Type = "Tor" /\ Size(l.Lim) # 0 THEN failed
        ELSE IF Struct_set_Poly(p.Poly).exc # "none" THEN failed
        ELSE [exc |-> "none", Poly |-> Struct_set_Poly(p.Poly).Poly, Lim |-> l.Lim,
              obj |-> Struct_new(Cls, Name, Type, VertexList(p.Poly), Windows(l.Lim))]

NoStructOp ==
    [op |-> "none", exists |-> FALSE, exc |-> "none",
     inPoly |-> NoArr, inLim |-> NoArr, Poly |-> NoArr, Lim |-> NoArr,
     obj |-> Struct_new("Ves", "none", "Tor", << >>, << >>),
     again |-> [exc |-> "none", Lim |-> NoArr]]

-----------------------------------------------------------------------------
(* The containment kernel (tofu.geom._GG._Ves_isInside)                    *)

\* hypot(X, Y), exact on the lattice
Hypot(X, Y) == CHOOSE r \in 0..(Abs(X) + Abs(Y)) : r * r = X * X + Y * Y

\* atan2(Y, X) in degrees, exact on the four axis half-planes
Atan2Deg(Y, X) ==
    CASE X > 0 /\ Y = 0 -> 0
      [] X = 0 /\ Y > 0 -> 90
      [] X < 0 /\ Y = 0 -> 180
      [] X = 0 /\ Y < 0 -> -90
      [] OTHER -> 0

\* cos and sin of the four lattice angles
CosDeg(phi) == CASE phi = 0 -> 1 [] phi = 180 -> -1 [] OTHER -> 0
SinDeg(phi) == CASE phi = 90 -> 1 [] phi = -90 -> -1 [] OTHER -> 0

\* an angle brought back to (-180, 180]
NormDeg(a) == LET m == a % 360 IN IF m > 180 THEN m - 360 ELSE m

\* Conversion of a point to the polygon's native 2D frame; the third
\* (angular or axial) coordinate is retained when the frame carries one.
CoordShift(pt, In, VType) ==
    CASE In = "(X,Y,Z)" /\ VType = "Tor" ->
            [p2 |-> <<Hypot(pt[1], pt[2]), pt[3]>>, has3 |-> TRUE,
             third |-> Atan2Deg(pt[2], pt[1])]
      [] In = "(X,Y,Z)" /\ VType = "Lin" ->
            [p2 |-> <<pt[2], pt[3]>>, has3 |-> TRUE, third |-> pt[1]]
      [] In = "(R,Z,Phi)" ->
            [p2 |-> <<pt[1], pt[2]>>, has3 |-> TRUE, third |-> NormDeg(pt[3])]
      [] OTHER ->  \* "(R,Z)" or "(Y,Z)"
            [p2 |-> <<pt[1], pt[2]>>, has3 |-> FALSE, third |-> 0]

\* Edge i of the closed contour crosses the horizontal half-line that
\* leaves p towards +x (half-open rule on the edge's y range).
EdgeCrosses(poly, i, p) ==
    LET a == poly[i]
        b == poly[(i % Len(poly)) + 1]
        dy == b[2] - a[2]
        lhs == (p[1] - a[1]) * dy
        rhs == (b[1] - a[1]) * (p[2] - a[2])
    IN  /\ (a[2] > p[2]) # (b[2] > p[2])
        /\ IF dy > 0 THEN lhs < rhs ELSE lhs > rhs

\* 2D point-in-polygon by ray casting (even-odd rule)
PathContains(poly, p) ==
    Cardinality({i \in 1..Len(poly) : EdgeCrosses(poly, i, p)}) % 2 = 1

\* The retained coordinate lies in one occurrence window; a toroidal window
\* whose end is below its start wraps through the +-180 degree boundary.
InWindow(VType, lim, third) ==
    IF VType = "Tor"
    THEN LET a == NormDeg(lim[1])
             b == NormDeg(lim[2])
         IN  IF a < b THEN third >= a /\ third <= b
                      ELSE third >= a \/ third <= b
    ELSE third >= lim[1] /\ third <= lim[2]

\* The result of a containment call for one point: one boolean per
\* occurrence (a single one when nLim <= 1), or an error.
IndOK(val) == [err |-> FALSE, val |-> val]
IndErr == [err |-> TRUE, val |-> << >>]

\* F(e), e being evaluated once (a local variable of the code)
Once(F(_), e) == CHOOSE y \in {F(x) : x \in {e}} : TRUE

\* the test of a point brought to the native frame: in the polygon, and in
\* each occurrence window when there are some
InsideShifted(c, in2, Lim, nLim, VType) ==
    IF nLim = 0 THEN IndOK(<<in2>>)
    ELSE IF c.has3
         THEN IndOK([i \in 1..nLim |-> in2 /\ InWindow(VType, Lim[i], c.third)])
         ELSE IF frame2D = "error" THEN IndErr
              ELSE IndOK([i \in 1..nLim |-> in2])

Ves_isInside(pt, VPoly, Lim, nLim, VType, In) ==
    Once(LAMBDA c : Once(LAMBDA in2 : InsideShifted(c, in2, Lim, nLim, VType),
                         PathContains(VPoly, c.p2)),
         CoordShift(pt, In, VType))

\* Struct.isInside with the structure's Type not forwarded to the kernel
Struct_isInside_wrongType(S, pt, In) ==
    Ves_isInside(pt, S.Poly, S.Lim, S.nLim, "Lin", In)

\* Struct.isInside with the occurrence windows not forwarded to the kernel
Struct_isInside_noLim(S, pt, In) ==
    Ves_isInside(pt, S.Poly, << >>, 0, S.Type, In)

\* Struct.isInside

Struct_isInside(S, pt, In) ==
    Ves_isInside(pt, S.Poly, S.Lim, S.nLim, S.Type, In)

-----------------------------------------------------------------------------
(* Config objects *)

\* An optional value (Python's None or a value)
None == [set |-> FALSE, v |-> << >>]
Some(x) == [set |-> TRUE, v |-> x]

\* The dictionaries of a Struct, their strip and their rebuild.
\* _comp._Struct_set_Poly, the derived fields of dgeom: the numbers of
\* vertices and of occurrences, the extent of the polygon
Struct_dgeom_derived(Poly, Lim) ==
    LET V == VertexList(Poly)
        xs == {V[i][1] : i \in 1..Len(V)}
        ys == {V[i][2] : i \in 1..Len(V)}
    IN  [nP |-> Len(V), nLim |-> Len(Windows(Lim)),
         P1Min |-> Min(xs), P1Max |-> -Min({-x : x \in xs}),
         P2Min |-> Min(ys), P2Max |-> -Min({-y : y \in ys})]

\* dgeom['BaryS'], the default of RefPt: the kernel's barycentre is a point
\* determined by the polygon, the middle of its extent stands for it
Struct_BaryS(dv) == <<(dv.P1Min + dv.P1Max) \div 2, (dv.P2Min + dv.P2Max) \div 2>>

\* Struct._set_dgeom(Poly, Lim, mobile, sino=False) on the object o, with
\* the assertion of Ves._checkformat_inputs_dgeom on mobile: the exception,
\* or the new dgeom
Struct_set_dgeom(o, Poly, Lim, mobile) ==
    LET res == Struct_init(o.Cls, "S", o.Type, Poly, Lim)
    IN  IF res.exc # "none" \/ (o.Cls \in {"Ves", "PlasmaDomain"} /\ mobile)
        THEN [exc |-> "AssertionError", o |-> o]
        ELSE [exc |-> "none",
              o |-> [o EXCEPT !.dgeom = [Poly |-> res.Poly, Lim |-> res.Lim,
                                         mobile |-> mobile,
                                         derived |-> Some(Struct_dgeom_derived(res.Poly, res.Lim))]]]

\* Struct.set_dsino(RefPt, nP): RefPt = None is dgeom['BaryS']; the
\* envelope of _GG.Sino_ImpactEnv is a value determined by its arguments
Struct_set_dsino(o, RefPt, nP) ==
    LET pt == IF RefPt.set THEN RefPt.v ELSE Struct_BaryS(o.dgeom.derived.v)
    IN  [o EXCEPT !.dsino = [RefPt |-> Some(pt), nP |-> nP,
                             Env |-> Some(<<pt, nP, VertexList(o.dgeom.Poly)>>)]]

\* Struct._rebuild_dgeom: when a field that is not kept is missing, dgeom
\* is computed again by _set_dgeom(self.Poly, Lim=self.Lim, Clock=...,
\* arrayorder=..., sino=False), without mobile
Struct_rebuild_dgeom(o) ==
    IF o.dgeom.derived.set THEN o
    ELSE Struct_set_dgeom(o, o.dgeom.Poly, o.dgeom.Lim, FALSE).o

\* Struct._rebuild_dsino: set_dsino(RefPt=self.dsino['RefPt'], nP=...)
Struct_rebuild_dsino(o) ==
    IF o.dsino.Env.set THEN o ELSE Struct_set_dsino(o, o.dsino.RefPt, o.dsino.nP)

\* Struct._strip_dgeom and _strip_dsino: the fields that are not kept are
\* emptied (dphys and dmisc hold kept fields only)
Struct_strip_dgeom(o) == [o EXCEPT !.dgeom.derived = None]
Struct_strip_dsino(o) == [o EXCEPT !.dsino.Env = None]

\* Struct.strip(strip): Struct._strip, then the level is recorded
Struct_strip_dicts(o, strip) ==
    LET o1 == IF strip = 0 THEN Struct_rebuild_dsino(Struct_rebuild_dgeom(o))
              ELSE IF strip = 1 THEN Struct_rebuild_dgeom(Struct_strip_dsino(o))
              ELSE Struct_strip_dgeom(Struct_strip_dsino(o))
    IN  [o1 EXCEPT !.strip = strip]

\* isMobile(): Ves.isMobile for a Ves or a PlasmaDomain; PFC.isMobile calls
\* Struct.isMobile and returns nothing
Struct_isMobile(o) ==
    IF o.Cls \in {"Ves", "PlasmaDomain"}
    THEN IF o.dgeom.mobile THEN [exc |-> "AssertionError", ret |-> "none"]
         ELSE [exc |-> "none", ret |-> "False"]
    ELSE [exc |-> "none", ret |-> "None"]

\* the dictionaries of a Struct
Struct_dicts(o) == [dgeom |-> o.dgeom, dsino |-> o.dsino, lSymbols |-> o.lSymbols,
                    color |-> o.color]

\* tofu.geom.<Cls>(Type=Type, Poly=Poly, Lim=Lim, mobile=mobile,
\* sino_RefPt=RefPt, color=color): Struct._init
Struct_init_dicts(Cls, Type, Poly, Lim, mobile, RefPt, color) ==
    LET o0 == [exists |-> FALSE, Cls |-> Cls, Type |-> Type, strip |-> 0,
               dgeom |-> [Poly |-> NoArr, Lim |-> NoArr, mobile |-> FALSE, derived |-> None],
               dsino |-> [RefPt |-> None, nP |-> 0, Env |-> None],
               lSymbols |-> None, color |-> color]
        g == Struct_set_dgeom(o0, Poly, Lim, mobile)
    IN  IF g.exc # "none" THEN g
        ELSE [exc |-> "none",
              o |-> [Struct_set_dsino(g.o, RefPt, 1) EXCEPT !.exists = TRUE]]

NoStructLife ==
    [o |-> Struct_init_dicts("Ves", "Tor", NoArr, NoArr, FALSE, None, 0).o,
     mobile |-> FALSE,
     trip |-> [n |-> 0, before |-> << >>],
     last |-> [op |-> "none", exc |-> "none", ret |-> "none", from |-> 0]]

\* The "Cls_Name" key of a Struct in the Config (lorder)
Key(S) == <<S.Cls, S.Name>>

RangeOf(seq) == {seq[i] : i \in 1..Len(seq)}

NoConfig == [exists |-> FALSE, Type |-> "Tor", dStruct |-> << >>,
             nStruct |-> 0, lorder |-> << >>, lCls |-> {},
             lprop |-> {}, dextra |-> << >>, attr |-> {}, strip |-> 0]
NoOp == [op |-> "none", exc |-> "none", arg |-> << >>]
NoOut == [pts |-> << >>, In |-> "none", log |-> "none", ind |-> << >>]

\* Config._set_dstruct without the test of the names' uniqueness
Config_set_dstruct_noCheck(lStruct) ==
    [exc |-> "none",
     dStruct |-> [k \in {Key(lStruct[i]) : i \in 1..Len(lStruct)} |->
                     lStruct[CHOOSE i \in 1..Len(lStruct) : Key(lStruct[i]) = k]],
     nStruct |-> Len(lStruct),
     lorder |-> [i \in 1..Len(lStruct) |-> Key(lStruct[i])],
     lCls |-> {lStruct[i].Cls : i \in 1..Len(lStruct)}]

\* Config._set_dstruct: the Structs are stored by class and name (a later
\* Struct of the same key would overwrite an earlier one, hence the test).
Config_set_dstruct(lStruct) ==
    LET lorder == [i \in 1..Len(lStruct) |-> Key(lStruct[i])]
        keys == RangeOf(lorder)
    IN  IF Cardinality(keys) # Len(lStruct)
        THEN [exc |-> "AssertionError", dStruct |-> << >>, nStruct |-> 0,
              lorder |-> << >>, lCls |-> {}]
        ELSE [exc |-> "none",
              dStruct |-> [k \in keys |->
                  lStruct[CHOOSE i \in 1..Len(lStruct) :
                              /\ Key(lStruct[i]) = k
                              /\ \A j \in (i+1)..Len(lStruct) : Key(lStruct[j]) # k]],
              nStruct |-> Len(lStruct),
              lorder |-> lorder,
              lCls |-> {lStruct[i].Cls : i \in 1..Len(lStruct)}]

\* Config._checkformat_inputs_extraval: a scalar, or an array of shape
\* (nStruct,)
Config_extraval_OK(nStruct, val) ==
    val.kind = "scalar" \/ (val.kind = "array" /\ Len(val.v) = nStruct)

\* Config._set_extraprop(pp, val) for all the Structs (k0 = k1 = None)
Config_extraprop_values(lorder, val) ==
    [k \in RangeOf(lorder) |->
        IF val.kind = "scalar" THEN val.v
        ELSE val.v[CHOOSE i \in 1..Len(lorder) : lorder[i] = k]]

\* Config._set_dextraprop: dextraprop maps property names to values
Config_set_dextraprop(ds, dextraprop) ==
    IF \E p \in DOMAIN dextraprop : ~Config_extraval_OK(ds.nStruct, dextraprop[p])
    THEN [exc |-> "Exception", lprop |-> {}, dextra |-> << >>]
    ELSE [exc |-> "none",
          lprop |-> DOMAIN dextraprop,
          dextra |-> [p \in DOMAIN dextraprop |->
                         Config_extraprop_values(ds.lorder, dextraprop[p])]]

\* The classes whose accessor Config._dynamicattr deletes before it sets
\* the accessors again (_ddef['dstruct']['order'])
Config_order == {"Ves", "PFC", "CoilPF", "CoilCS"}

\* the orders in which the classes of a Config may be walked (lCls is built
\* from a set, so that the order of the class dictionary is not determined)
ClassOrders(lCls) ==
    {o \in [1..Cardinality(lCls) -> lCls] :
        \A i, j \in 1..Cardinality(lCls) : o[i] = o[j] => i = j}

\* the keys in the order the loops over dStruct walk them: class by class,
\* and in the order of the list inside a class
WalkOrder(lorder, clsOrd) ==
    LET RECURSIVE W(_)
        W(i) == IF i > Len(clsOrd) THEN << >>
                ELSE SelectSeq(lorder, LAMBDA k : k[1] = clsOrd[i]) \o W(i + 1)
    IN  W(1)

\* Config._dynamicattr: the accessors self.<Cls> after the call.  attr is
\* the set of accessors before, ref[k] = 0 when the Struct of key k is held
\* as the name of its file (a str).  A class gets its accessor when the
\* first Struct of its dictionary is not a str; setting the methods of a
\* later Struct that is a str raises.
Config_dynamicattr(attr, lorder, ref, clsOrd) ==
    LET names(c) == SelectSeq(lorder, LAMBDA k : k[1] = c)
        ok(c) == ref[names(c)[1]] # 0
        bad(c) == ok(c) /\ \E i \in 1..Len(names(c)) : ref[names(c)[i]] = 0
        stop == IF \E i \in 1..Len(clsOrd) : bad(clsOrd[i])
                THEN Min({i \in 1..Len(clsOrd) : bad(clsOrd[i])})
                ELSE Len(clsOrd) + 1
    IN  [exc |-> IF stop <= Len(clsOrd) THEN "AttributeError" ELSE "none",
         attr |-> (attr \ Config_order)
                  \cup {clsOrd[i] : i \in {j \in 1..(stop - 1) : ok(clsOrd[j])}}]

\* Config.__init__ / Config._init: the object, or the exception raised
Config_init(lStruct, dextraprop, Type) ==
    LET ds == Config_set_dstruct(lStruct)
        dx == Config_set_dextraprop(ds, dextraprop)
        da == Config_dynamicattr({}, ds.lorder, [k \in RangeOf(ds.lorder) |-> 1],
                                 CHOOSE o \in ClassOrders(ds.lCls) : TRUE)
    IN  IF ds.exc # "none" THEN [exc |-> ds.exc, obj |-> NoConfig]
        ELSE IF dx.exc # "none" THEN [exc |-> dx.exc, obj |-> NoConfig]
        ELSE [exc |-> "none",
              obj |-> [exists |-> TRUE, Type |-> Type,
                       dStruct |-> ds.dStruct, nStruct |-> ds.nStruct,
                       lorder |-> ds.lorder, lCls |-> ds.lCls,
                       lprop |-> dx.lprop, dextra |-> dx.dextra,
                       attr |-> da.attr, strip |-> 0]]

\* Config.lStruct: the Structs in the order of lorder
Config_lStruct(c) == [i \in 1..Len(c.lorder) |-> c.dStruct[c.lorder[i]]]

\* Config._get_extraprop(pp): the values in the order of lorder
Config_get_extraprop(c, pp) ==
    [i \in 1..c.nStruct |-> c.dextra[pp][c.lorder[i]]]

\* Config._set_extraprop(pp, val, k0, k1): one Struct's value
Config_set_extraprop_one(c, pp, k, val) ==
    [c EXCEPT !.dextra[pp][k] = val]

\* np.any(indi, axis=0) / np.all(indi, axis=0) for one point
AnyOf(row) == \E k \in 1..Len(row) : row[k]
AllOf(row) == \A k \in 1..Len(row) : row[k]

\* Config.isInside with the rows of a Struct of several occurrences always
\* collapsed by np.any
Config_isInside_anyOnly(c, pts, In, log) ==
    LET lS == Config_lStruct(c)
        ker(i, n) == Ves_isInside(pts[n], lS[i].Poly, lS[i].Lim, lS[i].nLim,
                                  lS[i].Type, In)
    IN  IF log \notin {"any", "all"} \/ \E n \in 1..Len(pts) : Len(pts[n]) \notin {2, 3}
        THEN [exc |-> "AssertionError", ind |-> << >>]
        ELSE IF \E i \in 1..c.nStruct, n \in 1..Len(pts) : ker(i, n).err
        THEN [exc |-> "kernel", ind |-> << >>]
        ELSE [exc |-> "none",
              ind |-> [i \in 1..c.nStruct |-> [n \in 1..Len(pts) |->
                          AnyOf(ker(i, n).val)]]]

\* Config.isInside(pts, In, log): pts is a list of points (the columns of
\* the array); one row per Struct of lStruct, the rows of a Struct with
\* nLim > 1 being collapsed by np.any or np.all
Config_isInside(c, pts, In, log) ==
    LET lS == Config_lStruct(c)
        ker(i, n) == Ves_isInside(pts[n], lS[i].Poly, lS[i].Lim, lS[i].nLim,
                                  lS[i].Type, In)
    IN  IF log \notin {"any", "all"} \/ \E n \in 1..Len(pts) : Len(pts[n]) \notin {2, 3}
        THEN [exc |-> "AssertionError", ind |-> << >>]
        ELSE IF \E i \in 1..c.nStruct, n \in 1..Len(pts) : ker(i, n).err
        THEN [exc |-> "kernel", ind |-> << >>]
        ELSE [exc |-> "none",
              ind |-> [i \in 1..c.nStruct |-> [n \in 1..Len(pts) |->
                          IF lS[i].nLim > 1
                          THEN IF log = "any" THEN AnyOf(ker(i, n).val)
                                              ELSE AllOf(ker(i, n).val)
                          ELSE ker(i, n).val[1]]]]


-----------------------------------------------------------------------------
(* The Struct objects held by a Config.  An object is known by a reference
   into the heap, which carries what may change in it: its strip level and
   its color.  A Config holds one reference per key; the reference 0 stands
   for a str, the path and name of the Struct's file (strip level 3). *)

\* a Struct as Struct._init leaves it (_dstrip['strip'] = 0)
Struct_object == [strip |-> 0, color |-> 0]

NoHeap == << >>
NoHeld == [user |-> << >>, ukey |-> << >>, cfg |-> << >>, copy |-> << >>]
NoDisk == << >>

\* n references not in use
NewRefs(h, n) ==
    SubSeq(SetToSeq((1..(Cardinality(DOMAIN h) + n)) \ DOMAIN h), 1, n)

\* the heap with the objects objs at the references refs
Extend(h, refs, objs) ==
    [r \in DOMAIN h \cup RangeOf(refs) |->
        IF r \in RangeOf(refs)
        THEN objs[CHOOSE i \in 1..Len(refs) : refs[i] = r]
        ELSE h[r]]

\* the heap without the objects that nothing refers to any more
Collect(h, hd) ==
    LET live == RangeOf(hd.user) \cup {hd.cfg[k] : k \in DOMAIN hd.cfg}
                                 \cup {hd.copy[k] : k \in DOMAIN hd.copy}
    IN  [r \in DOMAIN h \cap live |-> h[r]]

\* Struct.strip(strip) / Struct._strip: level 1 removes what set_dsino
\* computed, level 2 also what _set_dgeom, set_dphys and _set_dmisc did;
\* a lower level builds them again from what was kept
Struct_strip(o, strip) == [o EXCEPT !.strip = strip]

\* Struct._set_color
Struct_set_color(o, color) == [o EXCEPT !.color = color]

\* what a Struct stores at its strip level: the kept fields, the fields
\* derived by _set_dgeom, the envelope derived by set_dsino
Struct_stored(o) ==
    IF o.strip = 0 THEN {"kept", "dgeom", "dsino"}
    ELSE IF o.strip = 1 THEN {"kept", "dgeom"}
    ELSE {"kept"}

\* the size of what an object stores; a str counts for nothing
Struct_get_nbytes(h, r) == IF r = 0 THEN 0 ELSE Cardinality(Struct_stored(h[r]))

\* Config.get_nbytes: the sum over the Structs
Config_get_nbytes(c, ref, h) ==
    LET RECURSIVE Sum(_)
        Sum(i) == IF i > Len(c.lorder) THEN 0
                  ELSE Struct_get_nbytes(h, ref[c.lorder[i]]) + Sum(i + 1)
    IN  Sum(1)

\* the index of the first key of walk on which F holds, Len(walk) + 1 if none
StopAt(walk, F(_)) ==
    IF \E i \in 1..Len(walk) : F(walk[i])
    THEN Min({i \in 1..Len(walk) : F(walk[i])})
    ELSE Len(walk) + 1

\* Config._set_dstruct, the objects: every Struct given is stored as a copy
\* (ss.copy()); lrefs are the references given, in the order of lorder
Config_set_dstruct_alias(h, lorder, lrefs) ==
    [heap |-> h,
     ref |-> [k \in RangeOf(lorder) |->
                 lrefs[CHOOSE i \in 1..Len(lorder) : lorder[i] = k]]]

Config_set_dstruct_objects(h, lorder, lrefs) ==
    LET new == NewRefs(h, Len(lorder))
    IN  [heap |-> Extend(h, new, [i \in 1..Len(lorder) |-> h[lrefs[i]]]),
         ref |-> [k \in RangeOf(lorder) |->
                     new[CHOOSE i \in 1..Len(lorder) : lorder[i] = k]]]

\* Config._strip_dstruct without the call of strip on the Structs
Config_strip_dstruct_keepStructs(c, ref, h, dsk, strip, force, clsOrd) ==
    LET walk == WalkOrder(c.lorder, clsOrd)
    IN  IF strip = 3 /\ c.strip < 3 /\ \A k \in RangeOf(walk) : ref[k] # 0 /\ k \in DOMAIN dsk
        THEN [exc |-> "none", ref |-> [k \in DOMAIN ref |-> 0], heap |-> h,
              attr |-> c.attr \ Config_order]
        ELSE [exc |-> "none", ref |-> ref, heap |-> h, attr |-> c.attr]

\* Config._strip_dstruct(strip, force): what is raised, and the references,
\* the heap and the accessors it leaves.  The loops walk the Structs one by
\* one, so that an exception leaves the Structs before it changed.
Config_strip_dstruct(c, ref, h, dsk, strip, force, clsOrd) ==
    LET walk == WalkOrder(c.lorder, clsOrd)
        n == Len(walk)
        Upto(s) == {walk[i] : i \in 1..(s - 1)}
        \* utils.load(pfe) of each Struct held as a str
        noFile(k) == k \notin DOMAIN dsk
        sA == IF c.strip = 3 THEN StopAt(walk, noFile) ELSE n + 1
        lk == IF c.strip = 3 THEN SubSeq(walk, 1, sA - 1) ELSE << >>
        lnew == NewRefs(h, Len(lk))
        hA == Extend(h, lnew, [i \in 1..Len(lk) |-> dsk[lk[i]]])
        refA == [k \in DOMAIN ref |->
                    IF k \in RangeOf(lk)
                    THEN lnew[CHOOSE i \in 1..Len(lk) : lk[i] = k] ELSE ref[k]]
        \* .strip(strip) of each Struct: a str has no such method
        isStrA(k) == refA[k] = 0
        sB == StopAt(walk, isStrA)
        hB == [r \in DOMAIN hA |->
                  IF r \in {refA[k] : k \in Upto(sB)}
                  THEN Struct_strip(hA[r], strip) ELSE hA[r]]
        \* self._set_dstruct(lStruct=self.lStruct)
        sd == Config_set_dstruct_objects(hB, c.lorder,
                                         [i \in 1..Len(c.lorder) |-> refA[c.lorder[i]]])
        \* strip = 3: v.Id of a str raises, a Struct without file is refused
        isStr(k) == ref[k] = 0
        fail3(k) == isStr(k) \/ noFile(k)
        s3 == StopAt(walk, fail3)
        ref3 == [k \in DOMAIN ref |-> IF k \in Upto(s3) THEN 0 ELSE ref[k]]
    IN  IF c.strip = strip
        THEN [exc |-> "none", ref |-> ref, heap |-> h, attr |-> c.attr]
        ELSE IF c.strip > strip
        THEN IF sA <= n
             THEN [exc |-> "Exception", ref |-> refA, heap |-> hA, attr |-> c.attr]
             ELSE IF sB <= n
             THEN [exc |-> "AttributeError", ref |-> refA, heap |-> hB, attr |-> c.attr]
             ELSE [exc |-> "none", ref |-> sd.ref, heap |-> sd.heap, attr |-> c.attr]
        ELSE IF strip \in {1, 2}
        THEN [exc |-> IF sB <= n THEN "AttributeError" ELSE "none",
              ref |-> ref, heap |-> hB, attr |-> c.attr]
        ELSE IF s3 <= n
        THEN [exc |-> IF isStr(walk[s3]) THEN "AttributeError"
                      ELSE IF force THEN "NameError" ELSE "Exception",
              ref |-> ref3, heap |-> h, attr |-> c.attr]
        ELSE [exc |-> "none", ref |-> ref3, heap |-> h,
              attr |-> Config_dynamicattr(c.attr, c.lorder, ref3, clsOrd).attr]

\* Config.strip(strip, force): Config._strip, then the level is recorded
Config_strip(c, ref, h, dsk, strip, force, clsOrd) ==
    LET r == Config_strip_dstruct(c, ref, h, dsk, strip, force, clsOrd)
    IN  [exc |-> r.exc, ref |-> r.ref, heap |-> r.heap,
         obj |-> [c EXCEPT !.attr = r.attr,
                           !.strip = IF r.exc = "none" THEN strip ELSE c.strip]]

\* a Struct of a Config as it compares: the str, or the object's content
Struct_at(h, r) ==
    IF r = 0 THEN [file |-> TRUE, strip |-> 0, color |-> 0]
    ELSE [file |-> FALSE, strip |-> h[r].strip, color |-> h[r].color]

\* what a Config holds: its dictionaries and the content of its Structs
Config_to_dict(c, ref, h) ==
    [c |-> c, dStruct |-> [k \in DOMAIN ref |-> Struct_at(h, ref[k])]]

\* Config.copy(): a Config of the same content, on objects of its own
Config_copy(c, ref, h) ==
    LET lk == SelectSeq(c.lorder, LAMBDA k : ref[k] # 0)
        new == NewRefs(h, Len(lk))
    IN  [obj |-> c,
         ref |-> [k \in DOMAIN ref |->
                     IF ref[k] = 0 THEN 0
                     ELSE new[CHOOSE i \in 1..Len(lk) : lk[i] = k]],
         heap |-> Extend(h, new, [i \in 1..Len(lk) |-> h[ref[lk[i]]]])]

-----------------------------------------------------------------------------
(* The ray / solid intersection kernel (_GG.LOS_Calc_PInOut_VesStruct),
   by a scan of the ray in unit steps.  Polygon vertices have even
   coordinates, ray origins odd ones and directions follow an axis, so that
   every crossing falls on an integer k and the middle of every step is off
   the boundaries; the middles are taken in doubled coordinates. *)

\* number of unit steps scanned along a ray
KScan == 14

Max2(a, b) == IF a >= b THEN a ELSE b

\* a direction: a vector, or NaN components
Dir(v) == [nan |-> FALSE, v |-> v]
NaNDir == [nan |-> TRUE, v |-> <<0, 0, 0>>]
Norm2(v) == v[1] * v[1] + v[2] * v[2] + v[3] * v[3]
IsUnit(d) == ~d.nan /\ Norm2(d.v) = 1

ISqrt(n) == CHOOSE r \in 0..n : r * r <= n /\ (r + 1) * (r + 1) > n

\* a Struct in doubled coordinates (angles are left as they are)
Scale2(S) ==
    [S EXCEPT !.Poly = [i \in 1..Len(S.Poly) |-> <<2 * S.Poly[i][1], 2 * S.Poly[i][2]>>],
              !.Lim = IF S.Type = "Lin"
                      THEN [i \in 1..Len(S.Lim) |-> <<2 * S.Lim[i][1], 2 * S.Lim[i][2]>>]
                      ELSE S.Lim]

\* the point D + (t/2) u, in doubled coordinates
PtOn2(D, u, t) == <<2 * D[1] + t * u[1], 2 * D[2] + t * u[2], 2 * D[3] + t * u[3]>>

\* is the point in the solid S2, i.e. in one of its occurrences (both in
\* doubled coordinates)
SolidContains2(S2, p) ==
    Once(LAMBDA r : \E i \in 1..Len(r.val) : r.val[i],
         Ves_isInside(p, S2.Poly, S2.Lim, S2.nLim, S2.Type, "(X,Y,Z)"))

\* for each step j (from k = j to k = j+1): is the ray in the solid
Profile(S, D, u) ==
    Once(LAMBDA S2 : [j \in 0..KScan |-> SolidContains2(S2, PtOn2(D, u, 2 * j + 1))],
         Scale2(S))

\* the k at which the ray enters the solid
Entries(prof) == {j \in 1..KScan : ~prof[j - 1] /\ prof[j]}

\* entry and exit of one ray in the reference solid; the exit is the first
\* one after the entry (after the origin if the ray starts inside)
InOutOfProfile(prof) ==
    LET ent == Entries(prof)
        from == IF prof[0] THEN 0 ELSE IF ent = {} THEN KScan ELSE Min(ent)
        exs == {j \in 1..KScan : j > from /\ prof[j - 1] /\ ~prof[j]}
    IN  [kIn |-> IF prof[0] \/ ent = {} THEN NaN ELSE Num(Min(ent)),
         kOut |-> IF exs = {} THEN NaN ELSE Num(Min(exs))]

\* entry and exit of the ray (D, u) in the reference solid S
LOS_RefInOut(S, D, u) == Once(InOutOfProfile, Profile(S, D, u))

\* the first entry of one ray in an obstructing solid
FirstHitOfProfile(prof) ==
    LET ent == Entries(prof)
    IN  IF ent = {} THEN NaN ELSE Num(Min(ent))

\* the first entry of the ray (D, u) in the obstructing solid T
LOS_FirstHit(T, D, u) == Once(FirstHitOfProfile, Profile(T, D, u))

\* what the kernel returns for a ray without valid crossing
Unresolved(kn) ==
    [kMin |-> NaN, kMax |-> IF kn.miss = "inf" THEN Inf ELSE NaN,
     vperp |-> NaNDir, indout |-> 0]

\* the exit kept for one ray: the exit of the reference (ref), or the
\* nearest entry in an obstruction (hit) met inside the reference before it
NearestExit(kn, u, ref, hit) ==
    LET cand == {t \in 1..Len(hit) :
                    /\ IsNum(hit[t]) /\ IsNum(ref.kOut)
                    /\ hit[t][2] < ref.kOut[2]
                    /\ (IsNaN(ref.kIn) \/ hit[t][2] >= ref.kIn[2])}
        kh == Min({hit[t][2] : t \in cand})
    IN  IF ~IsNum(ref.kOut) THEN Unresolved(kn)
        ELSE IF cand = {}
             THEN [kMin |-> ref.kIn, kMax |-> ref.kOut,
                   vperp |-> Dir(<<-u.v[1], -u.v[2], -u.v[3]>>), indout |-> 0]
             ELSE [kMin |-> ref.kIn, kMax |-> Num(kh),
                   vperp |-> Dir(<<-u.v[1], -u.v[2], -u.v[3]>>),
                   indout |-> Min({t \in cand : hit[t][2] = kh})]

\* _GG.LOS_Calc_PInOut_VesStruct for one ray: the reference S, the
\* obstructions LS; kn.miss is the kernel's flag for a ray without valid
\* crossing (NaN or +inf)
LOS_Calc_PInOut_VesStruct(kn, D, u, S, LS) ==
    IF u.nan THEN Unresolved(kn)
    ELSE Once(LAMBDA ref :
                 Once(LAMBDA hit : NearestExit(kn, u, ref, hit),
                      [t \in 1..Len(LS) |-> LOS_FirstHit(LS[t], D, u.v)]),
              LOS_RefInOut(S, D, u.v))

\* _comp.LOS_PRMin for one ray: the k in [0, kMax] of least major radius
LOS_PRMin(D, u, kMax) ==
    LET k0 == -(D[1] * u.v[1] + D[2] * u.v[2])
    IN  IF u.nan \/ ~IsNum(kMax) THEN NaN
        ELSE IF k0 <= 0 THEN Num(0)
        ELSE IF k0 >= kMax[2] THEN kMax
        ELSE Num(k0)

-----------------------------------------------------------------------------
(* The samplers of a Struct (_comp._Ves_get_sampleCross, _Ves_get_sampleS,
   _Ves_get_sampleV): regular grids whose points are the middles of the
   cells, in doubled coordinates; the resolution is absolute. *)

CeilDiv(a, b) == (a + b - 1) \div b

\* a regular grid over [lo, hi]: the number of cells, the effective
\* resolution and the middle of cell j (doubled)
Grid(lo, hi, res) ==
    LET N == CeilDiv(hi - lo, res)
    IN  [N |-> N, reseff |-> (hi - lo) \div N,
         mid |-> [j \in 0..(N - 1) |-> 2 * lo + (2 * j + 1) * ((hi - lo) \div N)]]

\* the bounding box of a polygon: P1Min, P1Max, P2Min, P2Max
BBox(Poly) ==
    LET xs == {Poly[i][1] : i \in 1..Len(Poly)}
        ys == {Poly[i][2] : i \in 1..Len(Poly)}
    IN  [P1Min |-> Min(xs), P1Max |-> -Min({-x : x \in xs}),
         P2Min |-> Min(ys), P2Max |-> -Min({-y : y \in ys})]

\* a doubled coordinate is in a domain DS given as an interval or None
InDomain(D, c2) == ~D.set \/ (c2 >= 2 * D.v[1] /\ c2 <= 2 * D.v[2])

NoSample == [pts |-> << >>, meas |-> << >>, ind |-> << >>, reseff |-> << >>]

\* the cells of the cross-section grid: the cell of index k, its middle,
\* and the indices of the cells whose middle is in the polygon
CrossCells(Poly, bb, res) ==
    LET g1 == Grid(bb.P1Min, bb.P1Max, res)
        g2 == Grid(bb.P2Min, bb.P2Max, res)
        mid == [k \in 0..(g1.N * g2.N - 1) |-> <<g1.mid[k % g1.N], g2.mid[k \div g1.N]>>]
        P2 == [i \in 1..Len(Poly) |-> <<2 * Poly[i][1], 2 * Poly[i][2]>>]
    IN  [n |-> g1.N * g2.N, mid |-> mid, dS |-> g1.reseff * g2.reseff,
         reseff |-> <<g1.reseff, g2.reseff>>,
         inside |-> {k \in 0..(g1.N * g2.N - 1) : PathContains(P2, mid[k])}]

\* _comp._Ves_get_sampleCross: the cells in the polygon, limited to DS, or
\* those of the indices ind (DS is then ignored)
Ves_get_sampleCross(Poly, bb, res, DS, ind) ==
    LET c == CrossCells(Poly, bb, res)
        sel == IF ind.set THEN ind.v
               ELSE SetToSeq({k \in c.inside :
                                 /\ InDomain(DS[1], c.mid[k][1])
                                 /\ InDomain(DS[2], c.mid[k][2])})
    IN  [pts |-> [i \in 1..Len(sel) |-> c.mid[sel[i]]],
         meas |-> [i \in 1..Len(sel) |-> c.dS],
         ind |-> sel, reseff |-> c.reseff]

\* _comp._Ves_get_sampleV for a linear Struct: the cross-section cells
\* swept along X over the limits
Ves_get_sampleV(Poly, bb, res, DV, ind, VLim) ==
    LET c == CrossCells(Poly, bb, res)
        gx == Grid(VLim[1][1], VLim[1][2], res)
        pt(k) == <<gx.mid[k \div c.n], c.mid[k % c.n][1], c.mid[k % c.n][2]>>
        sel == IF ind.set THEN ind.v
               ELSE SetToSeq({k \in 0..(c.n * gx.N - 1) :
                                 /\ (k % c.n) \in c.inside
                                 /\ \A a \in 1..3 : InDomain(DV[a], pt(k)[a])})
    IN  [pts |-> [i \in 1..Len(sel) |-> pt(sel[i])],
         meas |-> [i \in 1..Len(sel) |-> c.dS * gx.reseff],
         ind |-> sel, reseff |-> c.reseff \o <<gx.reseff>>]

\* the sampling of the edges of a polygon (of sides along the axes): for
\* each point its middle (doubled) and its length
EdgePoints(Poly, res) ==
    LET seg(s) ==
            LET a == Poly[s]
                b == Poly[(s % Len(Poly)) + 1]
                len == Abs(b[1] - a[1]) + Abs(b[2] - a[2])
                N == CeilDiv(len, res)
            IN  [j \in 1..N |->
                    [mid |-> <<2 * a[1] + (2 * j - 1) * ((b[1] - a[1]) \div N),
                               2 * a[2] + (2 * j - 1) * ((b[2] - a[2]) \div N)>>,
                     dl |-> len \div N]]
        RECURSIVE upTo(_)
        upTo(s) == IF s = 0 THEN << >> ELSE upTo(s - 1) \o seg(s)
    IN  upTo(Len(Poly))

\* _comp._Ves_get_sampleS for a linear Struct: the edge sampling swept
\* along X over the limits
Ves_get_sampleS(Poly, bb, res, DS, ind, VLim) ==
    LET e == EdgePoints(Poly, res)
        gx == Grid(VLim[1][1], VLim[1][2], res)
        n == Len(e)
        pt(k) == <<gx.mid[k \div n], e[(k % n) + 1].mid[1], e[(k % n) + 1].mid[2]>>
        sel == IF ind.set THEN ind.v
               ELSE SetToSeq({k \in 0..(n * gx.N - 1) :
                                 \A a \in 1..3 : InDomain(DS[a], pt(k)[a])})
    IN  [pts |-> [i \in 1..Len(sel) |-> pt(sel[i])],
         meas |-> [i \in 1..Len(sel) |-> e[(sel[i] % n) + 1].dl * gx.reseff],
         ind |-> sel, reseff |-> <<res, gx.reseff>>]

\* Struct.get_sampleCross with ind not handed to the sampler
Struct_get_sampleCross_noInd(S, res, DS, ind) ==
    Ves_get_sampleCross(S.Poly, BBox(S.Poly), res, DS, None)

\* Struct.get_sampleCross(res, DS=DS, resMode='abs', ind=ind)
Struct_get_sampleCross(S, res, DS, ind) ==
    Ves_get_sampleCross(S.Poly, BBox(S.Poly), res, DS, ind)

\* Struct.get_sampleS(res, DS=DS, resMode='abs', ind=ind)
Struct_get_sampleS(S, res, DS, ind) ==
    Ves_get_sampleS(S.Poly, BBox(S.Poly), res, DS, ind, S.Lim)

\* Struct.get_sampleV(res, DV=DV, resMode='abs', ind=ind)
Struct_get_sampleV(S, res, DV, ind) ==
    Ves_get_sampleV(S.Poly, BBox(S.Poly), res, DV, ind, S.Lim)

\* the sampler named kind
Struct_get_sample(kind, S, res, DS, ind) ==
    CASE kind = "Cross" -> Struct_get_sampleCross(S, res, DS, ind)
      [] kind = "S" -> Struct_get_sampleS(S, res, DS, ind)
      [] OTHER -> Struct_get_sampleV(S, res, DS, ind)

NoSampling == [op |-> "none", kind |-> "none", res |-> 0, DS |-> << >>,
               first |-> NoSample, second |-> NoSample]

-----------------------------------------------------------------------------
(* Rays objects *)

NoExc == [type |-> "none", at |-> "none"]
Exc(type, at) == [type |-> type, at |-> at]

\* Rays._reset: every key of dgeom and dconfig is None
NoRays ==
    [exists |-> FALSE, D |-> << >>, u |-> None, pinhole |-> None, nRays |-> 0,
     config |-> NoConfig,
     kMin |-> None, kMax |-> None, vperp |-> None, indout |-> None,
     kRMin |-> None, PkMin |-> None, PkMax |-> None, PRMin |-> None,
     RMin |-> None, Etendues |-> None, Surfaces |-> None]

\* u / sqrt(sum(u**2)): a zero vector gives NaN components.  The square
\* root is exact for the vectors used here (along an axis).
Normalize(v) ==
    LET n == ISqrt(Norm2(v))
    IN  IF Norm2(v) = 0 THEN NaNDir
        ELSE Dir(<<v[1] \div n, v[2] \div n, v[3] \div n>>)

\* Rays._checkformat_inputs_dgeom without the normalisation of u
Rays_checkformat_inputs_dgeom_rawU(dg) ==
    IF dg.kind = "pinhole"
    THEN [exc |-> NoExc, D |-> dg.D, u |-> None, pinhole |-> Some(dg.pinhole),
          nRays |-> Len(dg.D)]
    ELSE LET nD == Len(dg.D)
             nu == Len(dg.u)
         IN  IF ~((nD = 1 /\ nu > 1) \/ (nD > 1 /\ nu = 1) \/ nD = nu)
             THEN [exc |-> Exc("AssertionError", "nRays"), D |-> << >>,
                   u |-> None, pinhole |-> None, nRays |-> 0]
             ELSE [exc |-> NoExc, D |-> dg.D,
                   u |-> Some([i \in 1..nu |-> Dir(dg.u[i])]),
                   pinhole |-> None, nRays |-> Max2(nD, nu)]

\* Rays._checkformat_inputs_dgeom without the test on the numbers of D and u
Rays_checkformat_inputs_dgeom_anyCount(dg) ==
    IF dg.kind = "pinhole"
    THEN [exc |-> NoExc, D |-> dg.D, u |-> None, pinhole |-> Some(dg.pinhole),
          nRays |-> Len(dg.D)]
    ELSE [exc |-> NoExc, D |-> dg.D,
          u |-> Some([i \in 1..Len(dg.u) |-> Normalize(dg.u[i])]),
          pinhole |-> None, nRays |-> Max2(Len(dg.D), Len(dg.u))]

\* Rays._checkformat_inputs_dgeom: dg is {'D','pinhole'} or {'D','u'}
Rays_checkformat_inputs_dgeom(dg) ==
    IF dg.kind = "pinhole"
    THEN [exc |-> NoExc, D |-> dg.D, u |-> None, pinhole |-> Some(dg.pinhole),
          nRays |-> Len(dg.D)]
    ELSE LET u == [i \in 1..Len(dg.u) |-> Normalize(dg.u[i])]
             nD == Len(dg.D)
             nu == Len(u)
             C0 == nD = 1 /\ nu > 1
             C1 == nD > 1 /\ nu = 1
             C2 == nD = nu
         IN  IF ~(C0 \/ C1 \/ C2)
             THEN [exc |-> Exc("AssertionError", "nRays"), D |-> << >>,
                   u |-> None, pinhole |-> None, nRays |-> 0]
             ELSE [exc |-> NoExc, D |-> dg.D, u |-> Some(u), pinhole |-> None,
                   nRays |-> Max2(nD, nu)]

\* Config.add_extraprop(key, val): the values of the known properties are
\* set again, then _set_extraprop(key, val) looks up the dictionary of the
\* new property, which nothing has created, once per class of Structs (a
\* Config without Struct looks up nothing); lprop is not touched
Config_add_extraprop(c, key, val) ==
    IF key \in c.lprop
    THEN [exc |-> NoExc, obj |-> [c EXCEPT !.dextra[key] = [k \in DOMAIN c.dStruct |-> val]]]
    ELSE IF c.nStruct = 0 THEN [exc |-> NoExc, obj |-> c]
    ELSE [exc |-> Exc("KeyError", "add_extraprop"), obj |-> c]

\* Rays._checkformat_inputs_dconfig
Rays_checkformat_inputs_dconfig(c) ==
    IF ~c.exists THEN [exc |-> Exc("AssertionError", "config"), obj |-> c]
    ELSE IF "PlasmaDomain" \notin c.lCls
    THEN [exc |-> Exc("AssertionError", "PlasmaDomain"), obj |-> c]
    ELSE IF "compute" \notin c.lprop
    THEN Config_add_extraprop(c, "compute", TRUE)
    ELSE [exc |-> NoExc, obj |-> c]

\* np.tile(arr, n): the columns of arr, n times
Tile(arr, n) == [i \in 1..(Len(arr) * n) |-> arr[((i - 1) % Len(arr)) + 1]]

\* Rays.D
Rays_D(r) == IF Len(r.D) < r.nRays THEN Tile(r.D, r.nRays) ELSE r.D

\* Rays.u
Rays_u(r) ==
    IF ~r.u.set
    THEN [i \in 1..Len(r.D) |->
             Normalize(<<r.pinhole.v[1] - r.D[i][1], r.pinhole.v[2] - r.D[i][2],
                         r.pinhole.v[3] - r.D[i][3]>>)]
    ELSE IF Len(r.u.v) < r.nRays THEN Tile(r.u.v, r.nRays)
    ELSE r.u.v

\* Rays.lStruct_compute without the selection by the compute flags
Rays_lStruct_compute_all(r) == Config_lStruct(r.config)

\* Rays.lStruct_compute
Rays_lStruct_compute(r) ==
    LET compute == Config_get_extraprop(r.config, "compute")
        lS == Config_lStruct(r.config)
        keep(i) == IF compute[i] THEN <<lS[i]>> ELSE << >>
        RECURSIVE upTo(_)
        upTo(n) == IF n = 0 THEN << >> ELSE upTo(n - 1) \o keep(n)
    IN  upTo(Len(lS))

\* the column of an array met by ray i
Col(arr, i) == arr[((i - 1) % Len(arr)) + 1]

NoVisibilityMsg == "Some LOS have no visibility inside the plasma domain !"
NoConfigMsg == "The dgeom cannot be computed without a config !"

\* warnings.warn(msg): the message, and the ray indices written in it
Warning(msg) == [msg |-> msg, ind |-> {}]

\* the first PlasmaDomain of a Config:
\* list(config._dstruct['dStruct']['PlasmaDomain'].values())[0]
Config_PlasmaDomain(c) ==
    LET lS == Config_lStruct(c)
    IN  lS[Min({i \in 1..Len(lS) : lS[i].Cls = "PlasmaDomain"})]

\* the obstructions given to the kernel: the Structs marked for computation
\* that are not a PlasmaDomain
Rays_obstructions(r) ==
    SelectSeq(Rays_lStruct_compute(r), LAMBDA ss : ss.Cls # "PlasmaDomain")

\* the kernel's output for the rays of r, as returned (before any
\* replacement)
Rays_kernel_out(kn, r) ==
    LET D == Rays_D(r)
        u == Rays_u(r)
        S == Config_PlasmaDomain(r.config)
        LS == Rays_obstructions(r)
    IN  [i \in 1..r.nRays |->
            LOS_Calc_PInOut_VesStruct(kn, Col(D, i), Col(u, i), S, LS)]

\* the replacement of the sentinels in Rays._compute_dgeom, kMin kept as
\* returned
Rays_sentinels_keepNaN(out) ==
    [kMin |-> [i \in 1..Len(out) |-> out[i].kMin],
     kMax |-> [i \in 1..Len(out) |->
                  IF IsNaN(out[i].kMax) \/ IsInf(out[i].kMax) THEN NaN ELSE out[i].kMax],
     ind |-> {i \in 1..Len(out) : IsNaN(out[i].kMax) \/ IsInf(out[i].kMax)}]

\* the replacement of the sentinels in Rays._compute_dgeom:
\*   ind = isnan(kMin); kMin[ind] = 0
\*   ind = isnan(kMax) | isinf(kMax); kMax[ind] = nan
Rays_sentinels(out) ==
    [kMin |-> [i \in 1..Len(out) |-> IF IsNaN(out[i].kMin) THEN Num(0) ELSE out[i].kMin],
     kMax |-> [i \in 1..Len(out) |->
                  IF IsNaN(out[i].kMax) \/ IsInf(out[i].kMax) THEN NaN ELSE out[i].kMax],
     ind |-> {i \in 1..Len(out) : IsNaN(out[i].kMax) \/ IsInf(out[i].kMax)}]

\* D + k u for the rays of r
Rays_points(r, k) ==
    LET D == Rays_D(r)
        u == Rays_u(r)
    IN  [i \in 1..r.nRays |->
            <<Col(D, i)[1] + k[i][2] * Col(u, i).v[1],
              Col(D, i)[2] + k[i][2] * Col(u, i).v[2],
              Col(D, i)[3] + k[i][2] * Col(u, i).v[3]>>]

\* Rays._compute_dgeom_kRMin: kRMin for a Config of Type 'Tor', None
\* otherwise
Rays_compute_dgeom_kRMin(r) ==
    LET D == Rays_D(r)
        u == Rays_u(r)
    IN  [r EXCEPT !.kRMin = IF r.config.Type = "Tor"
                            THEN Some([i \in 1..r.nRays |->
                                          LOS_PRMin(Col(D, i), Col(u, i), r.kMax.v[i])])
                            ELSE None]

\* Rays._compute_dgeom_extra1: PRMin and RMin are assigned only if kRMin is
\* not None, and read in any case
Rays_compute_dgeom_extra1(r) ==
    LET PRMin == Rays_points(r, r.kRMin.v)
    IN  IF ~r.kRMin.set
        THEN [exc |-> Exc("UnboundLocalError", "PRMin"), r |-> r]
        ELSE [exc |-> NoExc,
              r |-> [r EXCEPT !.PkMin = Some(Rays_points(r, r.kMin.v)),
                              !.PkMax = Some(Rays_points(r, r.kMax.v)),
                              !.PRMin = Some(PRMin),
                              !.RMin = Some([i \in 1..r.nRays |->
                                                Hypot(PRMin[i][1], PRMin[i][2])])]]

\* Rays._compute_dgeom_kRMin, _compute_dgeom_extra1, _compute_dgeom_extra2D
\* (the latter does nothing on a Rays that is not a 2D camera)
Rays_compute_dgeom_extra(r) ==
    Once(Rays_compute_dgeom_extra1, Rays_compute_dgeom_kRMin(r))

\* Rays._compute_dgeom, after the call of the kernel: the sentinels, the
\* warning followed by the test of the unknown name plotdebug, the update
\* of dgeom and the extra quantities
Rays_compute_dgeom_store(r, out) ==
    LET sen == Rays_sentinels(out)
        r1 == [r EXCEPT !.kMin = Some(sen.kMin), !.kMax = Some(sen.kMax),
                        !.vperp = Some([i \in 1..Len(out) |-> out[i].vperp]),
                        !.indout = Some([i \in 1..Len(out) |-> out[i].indout])]
        ex == Rays_compute_dgeom_extra(r1)
    IN  IF sen.ind # {}
        THEN [exc |-> Exc("NameError", "plotdebug"),
              warns |-> <<Warning(NoVisibilityMsg)>>, raw |-> Some(out), r |-> r]
        ELSE [exc |-> ex.exc, warns |-> << >>, raw |-> Some(out), r |-> ex.r]

\* Rays._compute_dgeom(extra=True): the exception raised, the warnings
\* emitted, the kernel's output and the object as it is left
Rays_compute_dgeom(kn, r) ==
    IF ~r.config.exists
    THEN [exc |-> NoExc, warns |-> <<Warning(NoConfigMsg)>>, raw |-> None, r |-> r]
    ELSE IF ~r.config.dextra["compute"][Key(Config_PlasmaDomain(r.config))]
    THEN [exc |-> Exc("AssertionError", "get_compute"), warns |-> << >>,
          raw |-> None, r |-> r]
    ELSE Once(LAMBDA out : Rays_compute_dgeom_store(r, out), Rays_kernel_out(kn, r))

\* Rays._checkformat_inputs_dES: None, a scalar or nRays values
Rays_checkformat_inputs_dES(r, val) ==
    ~val.set \/ val.v.kind = "scalar" \/ Len(val.v.v) = r.nRays

\* the end of Rays._set_dgeom: set_Etendues is called twice, the second
\* time with Surfaces
Rays_set_dgeom_ES(cmp, Etendues, Surfaces) ==
    IF cmp.exc # NoExc THEN cmp
    ELSE IF ~Rays_checkformat_inputs_dES(cmp.r, Etendues)
    THEN [cmp EXCEPT !.exc = Exc("AssertionError", "Etendues")]
    ELSE IF ~Rays_checkformat_inputs_dES(cmp.r, Surfaces)
    THEN [cmp EXCEPT !.exc = Exc("AssertionError", "Surfaces"),
                     !.r.Etendues = Etendues]
    ELSE [cmp EXCEPT !.r.Etendues = Surfaces]

\* Rays._set_dgeom(dgeom, Etendues, Surfaces, sino_RefPt=None): the check
\* of dgeom, its storage, the computation, then Etendues and Surfaces
Rays_set_dgeom(kn, r, dg, Etendues, Surfaces) ==
    LET chk == Rays_checkformat_inputs_dgeom(dg)
        r1 == [r EXCEPT !.D = chk.D, !.u = chk.u, !.pinhole = chk.pinhole,
                        !.nRays = chk.nRays]
    IN  IF chk.exc # NoExc
        THEN [exc |-> chk.exc, warns |-> << >>, raw |-> None, r |-> r]
        ELSE Once(LAMBDA cmp : Rays_set_dgeom_ES(cmp, Etendues, Surfaces),
                  Rays_compute_dgeom(kn, r1))

\* Rays.set_dconfig(config, calcdgeom)
Rays_set_dconfig(kn, r, config, calcdgeom) ==
    LET chk == Rays_checkformat_inputs_dconfig(config)
        r1 == [r EXCEPT !.config = chk.obj]
    IN  IF chk.exc # NoExc
        THEN [exc |-> chk.exc, warns |-> << >>, raw |-> None, r |-> r]
        ELSE IF calcdgeom THEN Rays_compute_dgeom(kn, r1)
        ELSE [exc |-> NoExc, warns |-> << >>, raw |-> None, r |-> r1]

\* Rays._init: set_dconfig(calcdgeom=False), _set_dgeom(sino=True),
\* set_dchans(None), _set_dmisc
Rays_init(kn, dg, config, Etendues, Surfaces) ==
    LET c == Rays_set_dconfig(kn, NoRays, config, FALSE)
    IN  IF c.exc # NoExc THEN c
        ELSE Once(LAMBDA g : IF g.exc # NoExc THEN g ELSE [g EXCEPT !.r.exists = TRUE],
                  Rays_set_dgeom(kn, c.r, dg, Etendues, Surfaces))

\* comparisons of floating point values: false as soon as one is not a number
FLt(a, b) == IsNum(a) /\ IsNum(b) /\ a[2] < b[2]
FLe(a, b) == IsNum(a) /\ IsNum(b) /\ a[2] <= b[2]

\* the smallest N = 2^k + 1 that is at least n
RECURSIVE Romb(_, _)
Romb(n, p) == IF p + 1 >= n THEN p + 1 ELSE Romb(n, 2 * p)

\* _GG.LOS_get_sample for one ray, on the interval [d0, d1]: N segments of
\* equal length, N the smallest int such that the length is <= the
\* resolution (dl in 'abs' mode, the fraction 1/dl of the interval in 'rel'
\* mode), N even for 'simps', N = 2^k + 1 for 'romb'; the points are the
\* middles of the segments for 'sum', their edges otherwise.  A position is
\* num / (2 N), the effective resolution is L / N.  Nothing is returned on
\* an interval that is empty or not known.
LOS_get_sample(d0, d1, dl, dlMode, method) ==
    IF ~FLt(d0, d1) THEN [N |-> 0, L |-> 0, num |-> << >>]
    ELSE LET L == d1[2] - d0[2]
             n0 == IF dlMode = "abs" THEN CeilDiv(L, dl) ELSE dl
             N == IF method = "sum" THEN n0
                  ELSE IF method = "simps" THEN n0 + (n0 % 2)
                  ELSE Romb(n0, 1)
         IN  [N |-> N, L |-> L,
              num |-> IF method = "sum"
                      THEN [j \in 1..N |-> 2 * N * d0[2] + (2 * j - 1) * L]
                      ELSE [j \in 1..(N + 1) |-> 2 * N * d0[2] + 2 * (j - 1) * L]]

\* Rays.get_sample, the interval of one ray: DL = None is [kPIn, kPOut], a
\* DL given is clipped into [kPIn, kPOut], bound by bound
Rays_get_sample_DL(kPIn, kPOut, DL) ==
    LET a0 == IF DL.set THEN Num(DL.v[1]) ELSE kPIn
        b0 == IF DL.set THEN Num(DL.v[2]) ELSE kPOut
        a1 == IF FLt(a0, kPIn) THEN kPIn ELSE a0
        a2 == IF FLe(kPOut, a1) THEN kPOut ELSE a1
        b1 == IF FLt(kPOut, b0) THEN kPOut ELSE b0
        b2 == IF FLe(b1, kPIn) THEN kPIn ELSE b1
    IN  <<a2, b2>>

\* Rays.get_sample(dl, dlMode, DL, method), ind = None.  The method reads
\* self._check_inputs and self.geom['kPIn'], self.geom['kPOut'], which Rays
\* does not define: b tells whether the parent class provides them (geom
\* then gives kMin and kMax under these names).
Rays_get_sample(b, r, dl, dlMode, DL, method) ==
    IF b = "absent"
    THEN [exc |-> Exc("AttributeError", "_check_inputs"), out |-> << >>]
    ELSE [exc |-> NoExc,
          out |-> [i \in 1..r.nRays |->
                      LET d == Rays_get_sample_DL(r.kMin.v[i], r.kMax.v[i], DL)
                      IN  LOS_get_sample(d[1], d[2], dl, dlMode, method)]]

\* _GG.LOS_calc_signal for one ray on the interval [d0, d1], the emissivity
\* being 1 everywhere: every method integrates it exactly to the length
LOS_calc_signal(d0, d1) == Num(d1[2] - d0[2])

\* Rays.calc_signal: the test of the interval of one ray (indok)
Rays_calc_signal_indok(d) == IsNum(d[1]) /\ IsNum(d[2]) /\ d[2][2] - d[1][2] > 0

\* Rays.calc_signal(ff, dl, DL, dlMode, method, ind=None, Brightness=True,
\* plot=False, out=np.ndarray): for each ray the value returned and whether
\* the ray was given to the integrator.  As get_sample, the method reads
\* self._check_inputs and self.geom['kPIn'], self.geom['kPOut'].
Rays_calc_signal(b, r, DL) ==
    IF b = "absent"
    THEN [exc |-> Exc("AttributeError", "_check_inputs"), out |-> << >>]
    ELSE [exc |-> NoExc,
          out |-> [i \in 1..r.nRays |->
                      LET d == Rays_get_sample_DL(r.kMin.v[i], r.kMax.v[i], DL)
                      IN  IF Rays_calc_signal_indok(d)
                          THEN [sig |-> LOS_calc_signal(d[1], d[2]), passed |-> TRUE]
                          ELSE [sig |-> NaN, passed |-> FALSE]]]

\* ind.nonzero()[0]: the indices (from 0) of the True entries of a mask
RECURSIVE Nonzero(_)
Nonzero(mask) ==
    IF Len(mask) = 0 THEN << >>
    ELSE Nonzero(SubSeq(mask, 1, Len(mask) - 1))
             \o (IF mask[Len(mask)] THEN <<Len(mask) - 1>> ELSE << >>)

\* Rays.select(key=None, touch=touch, log=log, out=out), touch being None or
\* a string 'Cls_Name' (given as <<Cls, Name>>).  Without touch every ray is
\* selected.  With touch the name is looked up in lStruct_compute, touch[0]
\* becomes the index found, and the loop 'for n in len(touch[i])' then takes
\* the len() of this int.
Rays_select(r, touch, log, out) ==
    IF ~touch.set
    THEN LET ind == [i \in 1..r.nRays |-> TRUE]
         IN  [exc |-> NoExc, out |-> IF out = "int" THEN Nonzero(ind) ELSE ind]
    ELSE LET lS == Rays_lStruct_compute(r)
             ind == {ii \in 1..Len(lS) : Key(lS[ii]) = touch.v}
         IN  IF Cardinality(ind) # 1
             THEN [exc |-> Exc("AssertionError", "len(ind)==1"), out |-> << >>]
             ELSE [exc |-> Exc("TypeError", "len(touch[i])"), out |-> << >>]

\* Rays._strip_dconfig(strip) at the level cur.  file is the Config saved
\* under the SavePath of the Config (NoConfig when there is no such file).
\* Going up to 4 the Config is replaced by the path of its file; without
\* the file the name force is read, which the method does not have.  Coming
\* down from 4 the file is loaded first.  Otherwise Config.strip(strip).
Rays_strip_dconfig(c, cur, file, ref, h, dsk, strip, clsOrd) ==
    LET lnew == NewRefs(h, Len(file.lorder))
        hL == Extend(h, lnew, [i \in 1..Len(file.lorder) |-> Struct_object])
        refL == [k \in RangeOf(file.lorder) |->
                    lnew[CHOOSE i \in 1..Len(file.lorder) : file.lorder[i] = k]]
    IN  IF cur = strip
        THEN [exc |-> "none", obj |-> c, ref |-> ref, heap |-> h]
        ELSE IF strip < cur
        THEN IF cur = 4
             THEN Config_strip(file, refL, hL, dsk, strip, FALSE, clsOrd)
             ELSE Config_strip(c, ref, h, dsk, strip, FALSE, clsOrd)
        ELSE IF strip = 4
        THEN IF file.exists
             THEN [exc |-> "none", obj |-> NoConfig, ref |-> << >>, heap |-> h]
             ELSE [exc |-> "NameError", obj |-> c, ref |-> ref, heap |-> h]
        ELSE Config_strip(c, ref, h, dsk, strip, FALSE, clsOrd)

\* utils.ToFuObject._strip_dict(self._dgeom, lkeep) for the two lists of
\* Rays._strip_dgeom: with kRMin (strip = 1), without it (strip >= 2)
Rays_strip_dict_dgeom(r, keepkRMin) ==
    [r EXCEPT !.PkMin = None, !.PkMax = None, !.PRMin = None, !.RMin = None,
              !.kRMin = IF keepkRMin THEN @ ELSE None]

\* Rays._strip_dgeom(strip) at the level cur
Rays_strip_dgeom(r, cur, strip) ==
    IF cur = strip THEN [exc |-> NoExc, r |-> r]
    ELSE IF strip < cur
    THEN IF cur = 1 THEN Rays_compute_dgeom_extra1(r)
         ELSE IF strip = 1 THEN [exc |-> NoExc, r |-> Rays_compute_dgeom_kRMin(r)]
         ELSE IF strip = 0 THEN Rays_compute_dgeom_extra(r)
         ELSE [exc |-> NoExc, r |-> r]
    ELSE IF strip = 1 THEN [exc |-> NoExc, r |-> Rays_strip_dict_dgeom(r, TRUE)]
    ELSE IF cur <= 1 THEN [exc |-> NoExc, r |-> Rays_strip_dict_dgeom(r, FALSE)]
    ELSE [exc |-> NoExc, r |-> r]

\* the dsino of a Rays: whether RefPt and k are set, and whether the fields
\* pts, theta, p, phi of _compute_dsino_extra are
Rays_set_dsino(RefPt) == [RefPt |-> RefPt, k |-> RefPt, extra |-> RefPt]

\* Rays._strip_dsino(strip) at the level cur
Rays_strip_dsino(d, cur, strip) ==
    IF cur = strip THEN d
    ELSE IF strip < cur
    THEN IF strip <= 1 /\ d.k THEN [d EXCEPT !.extra = TRUE] ELSE d
    ELSE IF cur <= 1 THEN [d EXCEPT !.extra = FALSE]
    ELSE d

\* Rays._strip after _strip_dconfig returned c: _strip_dgeom, _strip_dsino,
\* then the level is recorded by strip
Rays_strip_dgeom_dsino(s, strip, c, g) ==
    IF g.exc # NoExc
    THEN [exc |-> g.exc.type, r |-> g.r, s |-> s, ref |-> c.ref, heap |-> c.heap]
    ELSE [exc |-> "none", r |-> g.r,
          s |-> [s EXCEPT !.strip = strip,
                          !.dsino = Rays_strip_dsino(s.dsino, s.strip, strip)],
          ref |-> c.ref, heap |-> c.heap]

\* Rays.strip(strip): Rays._strip (_strip_dconfig, _strip_dgeom,
\* _strip_dsino), then the level is recorded
Rays_strip(r, s, ref, h, dsk, strip, clsOrd) ==
    Once(LAMBDA c :
            IF c.exc # "none"
            THEN [exc |-> c.exc, r |-> [r EXCEPT !.config = c.obj], s |-> s,
                  ref |-> c.ref, heap |-> c.heap]
            ELSE Once(LAMBDA g : Rays_strip_dgeom_dsino(s, strip, c, g),
                      Rays_strip_dgeom([r EXCEPT !.config = c.obj], s.strip, strip)),
         Rays_strip_dconfig(r.config, s.strip, s.file, ref, h, dsk, strip, clsOrd))

NoRaysStrip == [strip |-> 0, dsino |-> Rays_set_dsino(FALSE), file |-> NoConfig,
                op |-> "none", exc |-> "none", from |-> 0]

NoSample1D == [op |-> "none", exc |-> NoExc, dl |-> 0, dlMode |-> "abs",
               DL |-> None, method |-> "sum", out |-> << >>]

KernDefault == [miss |-> "nan"]
NoRaysOp == [op |-> "none", exc |-> NoExc, warns |-> << >>, raw |-> None,
             dg |-> [kind |-> "none", D |-> << >>, u |-> << >>, pinhole |-> <<0, 0, 0>>]]

-----------------------------------------------------------------------------
(* Containment queries *)

Coords == (-MaxCoord)..MaxCoord
Angles == {-90, 0, 90, 180}

NoQuery == [kind |-> "none", p2 |-> <<0, 0>>, a1 |-> 0, a2 |-> 0,
            res2 |-> IndErr, res3a |-> IndErr, res3b |-> IndErr]

\* The rotation test: the same (R,Z) evaluated natively and at two angles.
QueryTor(R, Z, phi1, phi2) ==
    /\ qry.kind = "none"
    /\ sObj.Type = "Tor"
    /\ qry' = [kind |-> "tor", p2 |-> <<R, Z>>, a1 |-> phi1, a2 |-> phi2,
               res2 |-> Struct_isInside(sObj, <<R, Z>>, "(R,Z)"),
               res3a |-> Struct_isInside(sObj,
                           <<R * CosDeg(phi1), R * SinDeg(phi1), Z>>, "(X,Y,Z)"),
               res3b |-> Struct_isInside(sObj,
                           <<R * CosDeg(phi2), R * SinDeg(phi2), Z>>, "(X,Y,Z)")]
    /\ UNCHANGED <<frame2D, sObj>>
    /\ UNCHANGED <<varsStruct, varsConfig, varsRays, varsLife, varsSample>>

\* The translation test: the same (Y,Z) evaluated natively and at two X.
QueryLin(Y, Z, X1, X2) ==
    /\ qry.kind = "none"
    /\ sObj.Type = "Lin"
    /\ qry' = [kind |-> "lin", p2 |-> <<Y, Z>>, a1 |-> X1, a2 |-> X2,
               res2 |-> Struct_isInside(sObj, <<Y, Z>>, "(Y,Z)"),
               res3a |-> Struct_isInside(sObj, <<X1, Y, Z>>, "(X,Y,Z)"),
               res3b |-> Struct_isInside(sObj, <<X2, Y, Z>>, "(X,Y,Z)")]
    /\ UNCHANGED <<frame2D, sObj>>
    /\ UNCHANGED <<varsStruct, varsConfig, varsRays, varsLife, varsSample>>

InitInside ==
    /\ frame2D \in {"crossSection", "error"}
    /\ sObj \in {s \in StructCatalogue : Struct_LimOK(s.Cls, s.Type, s.Lim)}
    /\ qry = NoQuery /\ st = NoStructOp /\ sl = NoStructLife /\ smp = NoSampling
    /\ cfg = NoConfig /\ clast = NoOp /\ cout = NoOut
    /\ heap = NoHeap /\ held = NoHeld /\ disk = NoDisk /\ ccopy = NoConfig
    /\ kern = KernDefault /\ rays = NoRays /\ rlast = NoRaysOp /\ nops = 0
    /\ base = "absent" /\ sout = NoSample1D /\ rstr = NoRaysStrip

NextInside ==
    \/ \E R \in 0..(2 * MaxCoord), Z \in Coords, p1 \in Angles, p2 \in Angles :
          QueryTor(R, Z, p1, p2)
    \/ \E Y \in 0..(2 * MaxCoord), Z \in Coords, X1 \in Coords, X2 \in Coords :
          QueryLin(Y, Z, X1, X2)

SpecInside == InitInside /\ [][NextInside]_vars

-----------------------------------------------------------------------------
(* Claims on containment (SpecInside) *)

\* the retained coordinate a lies in occurrence window i of the Struct
InOcc(i, a) == InWindow(sObj.Type, sObj.Lim[i], a)
OutsideAllOcc(a) == \A i \in 1..sObj.nLim : ~InOcc(i, a)
AllFalse(ind) == ~ind.err /\ \A i \in 1..Len(ind.val) : ind.val[i] = FALSE

-----------------------------------------------------------------------------
(* Operations on a Config (SpecConfig) *)

\* largest number of Structs given to a Config
MaxStruct == 3

ScalarVal(b) == [kind |-> "scalar", v |-> b]
ArrayVal(a) == [kind |-> "array", v |-> a]

\* The Structs a Config is built from: two classes, names shared across
\* classes, and two different Structs of the same class and name.
ConfigStructs ==
    { Struct_new("PlasmaDomain", "A", "Tor", PolyBox, << >>),
      Struct_new("PFC", "A", "Tor", PolyBox, << <<-90, 0>> >>),
      Struct_new("PFC", "A", "Tor", PolyEll, << >>),
      Struct_new("PFC", "B", "Tor", PolyEll, << <<0, 90>>, <<180, 270>> >>) }

SeqsUpTo(S, n) == UNION {[1..m -> S] : m \in 0..n}

DefaultExtraprop == [visible |-> ScalarVal(TRUE)]

\* tofu.geom.Config(lStruct=...), on Structs just built by the user
Config_construct(lStruct) ==
    /\ ~cfg.exists
    /\ LET r == Config_init(lStruct, DefaultExtraprop, "Tor")
           lrefs == [i \in 1..Len(lStruct) |-> i]
           h0 == Extend(NoHeap, lrefs, [i \in 1..Len(lStruct) |-> Struct_object])
           sd == Config_set_dstruct_objects(h0, r.obj.lorder, lrefs)
       IN  /\ cfg' = r.obj
           /\ clast' = [op |-> "init", exc |-> r.exc, arg |-> lStruct]
           /\ heap' = IF r.exc = "none" THEN sd.heap ELSE h0
           /\ held' = [user |-> lrefs,
                       ukey |-> [i \in 1..Len(lStruct) |-> Key(lStruct[i])],
                       cfg |-> IF r.exc = "none" THEN sd.ref ELSE << >>,
                       copy |-> << >>]
    /\ UNCHANGED <<cout, disk, ccopy, varsInside, varsStruct, varsRays, varsSample>>

\* config.<Cls>.<Name>.set_visible(val)
Config_set_visible(k, val) ==
    /\ cfg.exists
    /\ k \in DOMAIN cfg.dStruct
    /\ cfg' = Config_set_extraprop_one(cfg, "visible", k, val)
    /\ clast' = [op |-> "set_visible", exc |-> "none", arg |-> clast.arg]
    /\ UNCHANGED <<cout, varsInside, varsStruct, varsRays, varsLife, varsSample>>

InitConfig ==
    /\ frame2D = "error" /\ sObj = Struct_new("Ves", "none", "Tor", PolyBox, << >>)
    /\ qry = NoQuery /\ st = NoStructOp /\ sl = NoStructLife /\ smp = NoSampling
    /\ cfg = NoConfig /\ clast = NoOp /\ cout = NoOut
    /\ heap = NoHeap /\ held = NoHeld /\ disk = NoDisk /\ ccopy = NoConfig
    /\ kern = KernDefault /\ rays = NoRays /\ rlast = NoRaysOp /\ nops = 0
    /\ base = "absent" /\ sout = NoSample1D /\ rstr = NoRaysStrip

NextConfig ==
    \/ \E l \in SeqsUpTo(ConfigStructs, MaxStruct) : Config_construct(l)
    \/ \E k \in {Key(s) : s \in ConfigStructs}, b \in BOOLEAN :
          Config_set_visible(k, b)

SpecConfig == InitConfig /\ [][NextConfig]_vars

\* C10: a Config never holds two Structs of the same (class, name):
\* a list with a duplicate pair is rejected and no object is built; an
\* accepted list is stored whole, nStruct being the number of Structs
\* supplied and lStruct listing exactly the supplied Structs in the
\* supplied order.
C10_UniqueKeys_OrderKept ==
    /\ clast.op = "init" =>
          LET l == clast.arg
              dup == \E i, j \in 1..Len(l) : i # j /\ Key(l[i]) = Key(l[j])
          IN  /\ dup => clast.exc = "AssertionError" /\ ~cfg.exists
              /\ ~dup => clast.exc = "none" /\ cfg.exists
    /\ cfg.exists =>
          /\ cfg.nStruct = Len(clast.arg)
          /\ Config_lStruct(cfg) = clast.arg
          /\ \A i, j \in 1..cfg.nStruct :
                Key(Config_lStruct(cfg)[i]) = Key(Config_lStruct(cfg)[j]) => i = j

\* C10 witnesses: a Config of three Structs, two of them of the same name
\* in different classes
C10_Witness ==
    /\ cfg.exists /\ cfg.nStruct = 3
    /\ \E i, j \in 1..3 : /\ cfg.lorder[i][2] = cfg.lorder[j][2]
                          /\ cfg.lorder[i][1] # cfg.lorder[j][1]

-----------------------------------------------------------------------------
(* Operations on a Rays object (SpecRays) *)

\* largest numbers of origins and of directions given to a Rays
MaxD == 3
MaxU == 2
\* largest number of operations on a Rays after its construction
MaxOps == 1

PolySep == << <<2, -4>>, <<8, -4>>, <<8, 4>>, <<2, 4>> >>
PolyIn == << <<4, -2>>, <<6, -2>>, <<6, 2>>, <<4, 2>> >>
PolyOut == << <<10, -2>>, <<12, -2>>, <<12, 2>>, <<10, 2>> >>
PolyLinSec == << <<-2, -4>>, <<2, -4>>, <<2, 4>>, <<-2, 4>> >>

StructSep == Struct_new("PlasmaDomain", "Sep", "Tor", PolySep, << >>)
StructCore == Struct_new("PlasmaDomain", "Core", "Tor", PolyIn, << >>)
StructIn == Struct_new("PFC", "In", "Tor", PolyIn, << >>)
StructOut == Struct_new("PFC", "Out", "Tor", PolyOut, << <<-90, 90>> >>)
StructSepL == Struct_new("PlasmaDomain", "SepL", "Lin", PolyLinSec, << <<2, 8>> >>)

WithCompute(val) == [visible |-> ScalarVal(TRUE), compute |-> val]

\* The Configs given to a Rays
CfgFull == Config_init(<<StructSep, StructIn, StructOut>>, WithCompute(ScalarVal(TRUE)), "Tor").obj
CfgPartial == Config_init(<<StructSep, StructIn, StructOut>>,
                          WithCompute(ArrayVal(<<TRUE, FALSE, TRUE>>)), "Tor").obj
CfgCore == Config_init(<<StructCore, StructOut>>, WithCompute(ScalarVal(TRUE)), "Tor").obj
CfgRefOff == Config_init(<<StructSep, StructIn>>,
                         WithCompute(ArrayVal(<<FALSE, TRUE>>)), "Tor").obj
CfgNoCompute == Config_init(<<StructSep, StructIn>>, DefaultExtraprop, "Tor").obj
CfgNoPlasma == Config_init(<<StructIn, StructOut>>, WithCompute(ScalarVal(TRUE)), "Tor").obj
CfgLin == Config_init(<<StructSepL>>, WithCompute(ScalarVal(TRUE)), "Lin").obj

RaysConfigs == {CfgFull, CfgPartial, CfgCore, CfgRefOff, CfgNoCompute,
                CfgNoPlasma, CfgLin}

\* origins (odd coordinates) and directions (along an axis; one of them is
\* not of unit length, one is the zero vector)
RayOrigins == << <<9, 0, 1>>, <<5, 0, 3>>, <<3, 0, 1>>, <<13, 0, 1>> >>
RayDirs == << <<-1, 0, 0>>, <<0, 0, -1>>, <<-2, 0, 0>>, <<0, 0, 0>> >>
PinOrigins == << <<9, 0, 1>>, <<13, 0, 1>>, <<3, 0, 1>> >>
Pinholes == { <<7, 0, 1>>, <<9, 0, 1>> }

\* n elements of a list, from the o-th on, cyclically
Cyclic(list, o, n) == [i \in 1..n |-> list[((o + i - 2) % Len(list)) + 1]]

DgeomInputs ==
    { [kind |-> "Du", D |-> Cyclic(RayOrigins, o, n), u |-> Cyclic(RayDirs, p, m),
       pinhole |-> <<0, 0, 0>>] :
          o \in 1..Len(RayOrigins), n \in 1..MaxD, p \in 1..Len(RayDirs), m \in 1..MaxU }
    \cup
    { [kind |-> "pinhole", D |-> Cyclic(PinOrigins, o, n), u |-> << >>, pinhole |-> ph] :
          o \in 1..Len(PinOrigins), n \in 1..MaxD, ph \in Pinholes }

\* Etendues and Surfaces given to a Rays
ESInputs == { <<None, None>>, <<Some(ScalarVal(1)), Some(ScalarVal(2))>> }

\* tofu.geom.Rays(dgeom=dg, config=c, Etendues=es[1], Surfaces=es[2]), once;
\* what a failed construction leaves is kept in rays, with exists = FALSE
RaysConstruct ==
    /\ rlast.op = "none"
    /\ \E dg \in DgeomInputs, c \in RaysConfigs, es \in ESInputs :
       \E res \in {Rays_init(kern, dg, c, es[1], es[2])} :
           /\ rays' = res.r
           /\ rlast' = [op |-> "init", exc |-> res.exc, warns |-> res.warns,
                        raw |-> res.raw, dg |-> dg]
    /\ nops' = 0
    /\ UNCHANGED <<kern, varsInside, varsStruct, varsConfig, varsLife, varsSample>>

\* rays.set_dconfig(config=c, calcdgeom=calc)
RaysSetDconfig ==
    /\ rays.exists /\ nops < MaxOps
    /\ \E c \in {CfgFull, CfgCore}, calc \in BOOLEAN :
       \E res \in {Rays_set_dconfig(kern, rays, c, calc)} :
           /\ rays' = res.r
           /\ rlast' = [op |-> "set_dconfig", exc |-> res.exc, warns |-> res.warns,
                        raw |-> res.raw, dg |-> rlast.dg]
    /\ nops' = nops + 1
    /\ UNCHANGED <<kern, varsInside, varsStruct, varsConfig, varsLife, varsSample>>

\* rays.config.<Cls>.<Name>.set_compute(val)
RaysConfigSetCompute ==
    /\ rays.exists /\ nops < MaxOps
    /\ \E k \in DOMAIN rays.config.dStruct, val \in BOOLEAN :
           rays' = [rays EXCEPT !.config = Config_set_extraprop_one(@, "compute", k, val)]
    /\ rlast' = [op |-> "set_compute", exc |-> NoExc, warns |-> << >>,
                 raw |-> None, dg |-> rlast.dg]
    /\ nops' = nops + 1
    /\ UNCHANGED <<kern, varsInside, varsStruct, varsConfig, varsLife, varsSample>>

InitRays ==
    /\ frame2D = "error" /\ sObj = Struct_new("Ves", "none", "Tor", PolyBox, << >>)
    /\ qry = NoQuery /\ st = NoStructOp /\ sl = NoStructLife /\ smp = NoSampling
    /\ cfg = NoConfig /\ clast = NoOp /\ cout = NoOut
    /\ heap = NoHeap /\ held = NoHeld /\ disk = NoDisk /\ ccopy = NoConfig
    /\ kern \in [miss : {"nan", "inf"}]
    /\ rays = NoRays /\ rlast = NoRaysOp /\ nops = 0
    /\ base = "absent" /\ sout = NoSample1D /\ rstr = NoRaysStrip

NextRays ==
    \/ RaysConstruct
    \/ RaysSetDconfig
    \/ RaysConfigSetCompute

SpecRays == InitRays /\ [][NextRays]_vars


-----------------------------------------------------------------------------
(* Claims on Rays (SpecRays) *)

\* the rays the kernel left unresolved in the last computation
RawUnresolved == {i \in 1..Len(rlast.raw.v) :
                     IsNaN(rlast.raw.v[i].kMax) \/ IsInf(rlast.raw.v[i].kMax)}

\* the reference (first PlasmaDomain) of the Rays' own Config
RaysRef == Config_PlasmaDomain(rays.config)

\* C3 (as stated): for every ray of a Rays object whose stored kMax is not
\* NaN, the stored kMin is at most the stored kMax and the midpoint
\* D + 0.5 (kMin + kMax) u is inside the reference (PlasmaDomain) Struct of
\* the Rays' Config.
C3_MidpointInsideReference ==
    rays.exists /\ rays.kMax.set =>
        \A i \in 1..rays.nRays :
            IsNum(rays.kMax.v[i]) =>
                /\ rays.kMin.v[i][2] <= rays.kMax.v[i][2]
                /\ SolidContains2(Scale2(RaysRef),
                                  PtOn2(Col(Rays_D(rays), i), Col(Rays_u(rays), i).v,
                                        rays.kMin.v[i][2] + rays.kMax.v[i][2]))

\* C4 (as stated): a computation of the ray geometry in which the kernel
\* leaves some ray without valid crossing does not raise: it completes, the
\* stored kMax of these rays is NaN and a warning is emitted.
C4_NoCrossingNeverRaises ==
    rlast.raw.set /\ RawUnresolved # {} =>
        /\ rlast.exc = NoExc
        /\ rays.kMax.set
        /\ \A i \in RawUnresolved : rays.kMax.v[i] = NaN
        /\ rlast.warns # << >>

C6_WarningCarriesIndices ==
    \A j \in 1..Len(rlast.warns) :
        rlast.warns[j].msg = NoVisibilityMsg =>
            rlast.warns[j].ind = RawUnresolved

\* the numbers of origins and directions given to the constructor are
\* ambiguous
Ambiguous(dg) ==
    /\ dg.kind = "Du"
    /\ Len(dg.D) # Len(dg.u) /\ Len(dg.D) # 1 /\ Len(dg.u) # 1

C9_CacheNeverStale ==
    /\ rays.exists /\ rays.kMin.set
    /\ rays.config.dextra["compute"][Key(RaysRef)]
    => \E out \in {Rays_kernel_out(kern, rays)} :
          /\ rays.kMin.v = Rays_sentinels(out).kMin
          /\ rays.kMax.v = Rays_sentinels(out).kMax
          /\ rays.vperp.v = [i \in 1..Len(out) |-> out[i].vperp]
          /\ rays.indout.v = [i \in 1..Len(out) |-> out[i].indout]

\* the indices, in lStruct, of the Structs of the Rays' Config that are not a
\* PlasmaDomain and whose compute flag is true
ComputeFlagged ==
    {i \in 1..Len(rays.config.lorder) :
        /\ rays.config.dStruct[rays.config.lorder[i]].Cls # "PlasmaDomain"
        /\ rays.config.dextra["compute"][rays.config.lorder[i]]}

\* C11: whenever the intersection kernel has been called, the reference
\* given to it is a PlasmaDomain whose compute flag is true, and the list of
\* obstructions given to it holds exactly the Structs that are not a
\* PlasmaDomain and whose compute flag is true, each once, in the order of
\* lStruct; no Struct whose flag is false is in it.
C11_ComputeFlagParticipation ==
    rlast.raw.set =>
        LET lS == Config_lStruct(rays.config)
            obs == Rays_obstructions(rays)
            idx(j) == CHOOSE i \in 1..Len(lS) : lS[i] = obs[j]
        IN  /\ RaysRef.Cls = "PlasmaDomain"
            /\ rays.config.dextra["compute"][Key(RaysRef)]
            /\ \A j \in 1..Len(obs) : \E i \in 1..Len(lS) : lS[i] = obs[j]
            /\ {idx(j) : j \in 1..Len(obs)} = ComputeFlagged
            /\ Len(obs) = Cardinality(ComputeFlagged)
            /\ \A j, k \in 1..Len(obs) : j < k => idx(j) < idx(k)

\* C11 witness: the kernel has been called for a Config in which one
\* obstruction is marked and another is not
C11_Witness ==
    /\ rlast.raw.set /\ rlast.op = "init"
    /\ ComputeFlagged # {}
    /\ \E k \in DOMAIN rays.config.dStruct :
          /\ rays.config.dStruct[k].Cls # "PlasmaDomain"
          /\ ~rays.config.dextra["compute"][k]
    /\ Len(Rays_obstructions(rays)) = Cardinality(ComputeFlagged)

-----------------------------------------------------------------------------
(* Queries and operations on a Config (SpecConfigOps) *)

\* largest number of points in a batch given to Config.isInside
MaxPts == 2

\* points given to isInside, in (X,Y,Z) and in (R,Z)
QueryPoints3 == << <<3, 0, 1>>, <<-3, 0, 1>>, <<0, 3, 1>>, <<7, 0, 0>>, <<5, 0, 1>> >>
QueryPoints2 == << <<3, 1>>, <<5, 1>>, <<7, 0>> >>

QueryBatches ==
    { [pts |-> Cyclic(QueryPoints3, o, n), In |-> "(X,Y,Z)"] :
          o \in 1..Len(QueryPoints3), n \in 1..MaxPts }
    \cup
    { [pts |-> Cyclic(QueryPoints2, o, n), In |-> "(R,Z)"] :
          o \in 1..Len(QueryPoints2), n \in 1..MaxPts }

\* cfg.isInside(pts, In=In, log=log)
ConfigIsInside ==
    /\ cfg.exists
    /\ \E b \in QueryBatches, log \in {"any", "all", "one"} :
       \E res \in {Config_isInside(cfg, b.pts, b.In, log)} :
           /\ cout' = [pts |-> b.pts, In |-> b.In, log |-> log, ind |-> res.ind]
           /\ clast' = [op |-> "isInside", exc |-> res.exc, arg |-> clast.arg]
    /\ UNCHANGED <<cfg, varsInside, varsStruct, varsRays, varsLife, varsSample>>

ConfigOpsConstruct ==
    \E l \in SeqsUpTo(ConfigStructs, MaxStruct) : Config_construct(l)

InitConfigOps ==
    /\ frame2D \in {"crossSection", "error"}
    /\ sObj = Struct_new("Ves", "none", "Tor", PolyBox, << >>)
    /\ qry = NoQuery /\ st = NoStructOp /\ sl = NoStructLife /\ smp = NoSampling
    /\ cfg = NoConfig /\ clast = NoOp /\ cout = NoOut
    /\ heap = NoHeap /\ held = NoHeld /\ disk = NoDisk /\ ccopy = NoConfig
    /\ kern = KernDefault /\ rays = NoRays /\ rlast = NoRaysOp /\ nops = 0
    /\ base = "absent" /\ sout = NoSample1D /\ rstr = NoRaysStrip

NextConfigOps ==
    \/ ConfigOpsConstruct
    \/ ConfigIsInside

SpecConfigOps == InitConfigOps /\ [][NextConfigOps]_vars

\* C12: a call of Config.isInside that returns gives one row per Struct of
\* lStruct and one column per point; row i is the containment of the points
\* in the i-th Struct as Struct.isInside gives it, the rows of a Struct of
\* more than one occurrence being combined by OR when log = 'any' and by
\* AND when log = 'all'.
C12_StackedContainment ==
    clast.op = "isInside" /\ clast.exc = "none" =>
        /\ cout.log \in {"any", "all"}
        /\ Len(cout.ind) = cfg.nStruct
        /\ \A i \in 1..Len(cout.ind) :
              /\ Len(cout.ind[i]) = Len(cout.pts)
              /\ \A n \in 1..Len(cout.pts) :
                    LET S == Config_lStruct(cfg)[i]
                        r == Struct_isInside(S, cout.pts[n], cout.In)
                    IN  cout.ind[i][n] =
                            IF S.nLim > 1
                            THEN IF cout.log = "any"
                                 THEN \E k \in 1..S.nLim : r.val[k]
                                 ELSE \A k \in 1..S.nLim : r.val[k]
                            ELSE r.val[1]

\* C12 witness: log = 'all' on a Config of several Structs, one of them of
\* two occurrences, with a point that is in one occurrence only
C12_Witness ==
    /\ clast.op = "isInside" /\ clast.exc = "none" /\ cout.log = "all"
    /\ cfg.nStruct > 1 /\ Len(cout.ind) = cfg.nStruct
    /\ \E i \in 1..cfg.nStruct, n \in 1..Len(cout.pts) :
          LET S == Config_lStruct(cfg)[i]
              r == Struct_isInside(S, cout.pts[n], cout.In)
          IN  /\ S.nLim > 1
              /\ \E k \in 1..S.nLim : r.val[k]
              /\ \E k \in 1..S.nLim : ~r.val[k]
              /\ ~cout.ind[i][n]

-----------------------------------------------------------------------------
(* Construction of a Struct (SpecStruct) *)

\* the Poly arguments: a triangle and a box in both layouts, two vertices,
\* one vertex, no dimension of 2, 1D, 3D, None
PolyInputs ==
    << Arr2(<< <<2, 6, 6>>, <<-2, -2, 2>> >>, 3),
      Arr2(<< <<2, -2>>, <<6, -2>>, <<6, 2>> >>, 2),
      Arr2(<< <<2, 6, 6, 2>>, <<-2, -2, 2, 2>> >>, 4),
      Arr2(<< <<2, -2>>, <<6, -2>>, <<6, 2>>, <<2, 2>> >>, 2),
      Arr2(<< <<2, -2>>, <<6, 2>> >>, 2),
      Arr2(<< <<2, -2>> >>, 2),
      Arr2(<< <<2, 6, 6>>, <<-2, -2, 2>>, <<0, 0, 0>> >>, 3),
      Arr1(<<2, -2>>),
      Arr3,
      NoArr >>

\* the Lim arguments: None, [], a pair, three values, 1x2, 2x2, 3x2, 2x3,
\* 2x1, 1x3, empty 2D arrays, 3D
LimInputs ==
    << NoArr,
      Arr1(<< >>),
      Arr1(<<-90, 0>>),
      Arr1(<<-90, 0, 90>>),
      Arr2(<< <<-90, 0>> >>, 2),
      Arr2(<< <<0, 90>>, <<180, 270>> >>, 2),
      Arr2(<< <<0, 90>>, <<180, 270>>, <<-90, 0>> >>, 2),
      Arr2(<< <<0, 180, -90>>, <<90, 270, 0>> >>, 3),
      Arr2(<< <<0>>, <<90>> >>, 1),
      Arr2(<< <<0, 90, 180>> >>, 3),
      Arr2(<< >>, 2),
      Arr2(<< << >>, << >> >>, 0),
      Arr2(<< >>, 3),
      Arr3 >>

\* tofu.geom.<Cls>(Name='S', Type=Type, Poly=Poly, Lim=Lim)
StructConstruct ==
    /\ st.op = "none"
    /\ \E Cls \in {"Ves", "PFC"}, Type \in {"Tor", "Lin"},
          p \in 1..Len(PolyInputs), l \in 1..Len(LimInputs) :
       \E res \in {Struct_init(Cls, "S", Type, PolyInputs[p], LimInputs[l])} :
           st' = [op |-> "init", exists |-> res.exc = "none", exc |-> res.exc,
                  inPoly |-> PolyInputs[p], inLim |-> LimInputs[l],
                  Poly |-> res.Poly, Lim |-> res.Lim,
                  obj |-> res.obj, again |-> NoStructOp.again]
    /\ UNCHANGED <<smp, sl, varsInside, varsConfig, varsRays, varsLife, varsSample>>

\* Struct._checkformat_inputs_dgeom applied to the Lim of the Struct
StructCheckLimAgain ==
    /\ st.op = "init" /\ st.exists
    /\ st' = [st EXCEPT !.op = "again",
                         !.again = Struct_checkformat_Lim(st.Lim, st.obj.Type)]
    /\ UNCHANGED <<smp, sl, varsInside, varsConfig, varsRays, varsLife, varsSample>>

InitStruct ==
    /\ frame2D = "error" /\ sObj = Struct_new("Ves", "none", "Tor", PolyBox, << >>)
    /\ qry = NoQuery /\ st = NoStructOp /\ sl = NoStructLife /\ smp = NoSampling
    /\ cfg = NoConfig /\ clast = NoOp /\ cout = NoOut
    /\ heap = NoHeap /\ held = NoHeld /\ disk = NoDisk /\ ccopy = NoConfig
    /\ kern = KernDefault /\ rays = NoRays /\ rlast = NoRaysOp /\ nops = 0
    /\ base = "absent" /\ sout = NoSample1D /\ rstr = NoRaysStrip

NextStruct ==
    \/ StructConstruct
    \/ StructCheckLimAgain

SpecStruct == InitStruct /\ [][NextStruct]_vars

\* the number of vertices of a polygon argument (0 if it is not 2D), and
\* whether the argument is one the construction must reject
NVert(P) == IF P.ndim # 2 THEN 0
            ELSE IF P.shape[1] = 2 THEN P.shape[2] ELSE P.shape[1]
BadPoly(P) == P.ndim # 2 \/ ~InShape(2, P) \/ NVert(P) < 3

\* C13: the construction of a Struct from a polygon that is not a 2D
\* array, that has no dimension of 2 or that has fewer than 3 vertices
\* raises and no object is built; a polygon that is accepted is stored in
\* the layout (2,N), with the vertices given, whether it came as (2,N) or
\* as (N,2).
C13_PolygonChecked ==
    st.op # "none" =>
        LET P == st.inPoly
            nVert == NVert(P)
        IN  /\ BadPoly(P) => ~st.exists /\ st.exc # "none"
            /\ st.exists =>
                  /\ st.Poly.shape = <<2, nVert>>
                  /\ Len(st.Poly.v) = 2
                  /\ \A i \in 1..nVert :
                        <<st.Poly.v[1][i], st.Poly.v[2][i]>> =
                            IF P.shape[1] = 2 THEN <<P.v[1][i], P.v[2][i]>>
                                              ELSE P.v[i]

\* C13 witness: a Struct built from a polygon given as (N,2)
C13_Witness ==
    /\ st.exists /\ st.inPoly.shape = <<4, 2>> /\ st.Poly.shape = <<2, 4>>
    /\ st.Poly.v[1] = <<2, 6, 6, 2>>

\* C14: no Struct of Type 'Lin' exists without limits (the construction
\* with Lim None or empty raises); the construction of a Struct of Type
\* 'Tor' with Lim None and a valid polygon succeeds and gives nLim = 0.
C14_LinNeedsLim ==
    st.op # "none" =>
        /\ st.obj.Type = "Lin" /\ (st.inLim.ndim = 0 \/ Size(st.inLim) = 0) =>
              ~st.exists /\ st.exc # "none"
        /\ st.exists /\ st.obj.Type = "Lin" =>
              st.obj.nLim > 0 /\ Size(st.Lim) > 0
        /\ st.obj.Type = "Tor" /\ st.inLim.ndim = 0 /\ ~BadPoly(st.inPoly) =>
              st.exists /\ st.obj.nLim = 0 /\ st.obj.Lim = << >>

\* C14 witness: a toroidal Struct built with Lim None
C14_Witness ==
    /\ st.exists /\ st.obj.Type = "Tor" /\ st.inLim.ndim = 0 /\ st.obj.nLim = 0

\* C15: the check of the format applied to a Lim that it has produced
\* accepts it and gives the same windows in the same order.
C15_LimIdempotent ==
    st.op = "again" =>
        /\ st.again.exc = "none"
        /\ Windows(st.again.Lim) = Windows(st.Lim)

\* C15 witness: a Lim given as 2x3 is stored as three windows and checked
\* again
C15_Witness ==
    /\ st.op = "again" /\ st.inLim.shape = <<2, 3>>
    /\ Windows(st.Lim) = << <<0, 90>>, <<180, 270>>, <<-90, 0>> >>
    /\ Windows(st.again.Lim) = Windows(st.Lim)

-----------------------------------------------------------------------------
(* Sampling of a Struct (SpecSample) *)

\* largest resolution asked of a sampler
MaxRes == 4

\* the domains given to the samplers: the whole Struct, or the part with a
\* first (second) coordinate in the interval
SampleDomains ==
    { <<None, None, None>>, <<Some(<<4, 6>>), None, None>>,
      <<None, Some(<<0, 2>>), None>> }

\* pts, meas, ind, reseff = sObj.get_sample<kind>(res, DS)
SampleFirst ==
    /\ smp.op = "none"
    /\ \E kind \in {"Cross", "S", "V"}, res \in 1..MaxRes, DS \in SampleDomains :
          /\ kind # "Cross" => sObj.Type = "Lin" /\ sObj.nLim = 1
          /\ smp' = [op |-> "sample", kind |-> kind, res |-> res, DS |-> DS,
                      first |-> Struct_get_sample(kind, sObj, res, DS, None),
                      second |-> NoSample]
    /\ UNCHANGED <<st, sl, varsInside, varsConfig, varsRays, varsLife, varsSample>>

\* sObj.get_sample<kind>(res, ind=ind), ind being the one returned before
SampleReplay ==
    /\ smp.op = "sample"
    /\ smp' = [smp EXCEPT !.op = "replay",
                           !.second = Struct_get_sample(smp.kind, sObj, smp.res,
                                          <<None, None, None>>, Some(smp.first.ind))]
    /\ UNCHANGED <<st, sl, varsInside, varsConfig, varsRays, varsLife, varsSample>>

InitSample ==
    /\ frame2D = "error"
    /\ sObj \in {s \in StructCatalogue : Struct_LimOK(s.Cls, s.Type, s.Lim)}
    /\ qry = NoQuery /\ st = NoStructOp /\ sl = NoStructLife /\ smp = NoSampling
    /\ cfg = NoConfig /\ clast = NoOp /\ cout = NoOut
    /\ heap = NoHeap /\ held = NoHeld /\ disk = NoDisk /\ ccopy = NoConfig
    /\ kern = KernDefault /\ rays = NoRays /\ rlast = NoRaysOp /\ nops = 0
    /\ base = "absent" /\ sout = NoSample1D /\ rstr = NoRaysStrip

NextSample ==
    \/ SampleFirst
    \/ SampleReplay

SpecSample == InitSample /\ [][NextSample]_vars

-----------------------------------------------------------------------------
(* The life of a Config: saved Structs and strip (SpecConfigLife), copies
   (SpecConfigCopy) *)

\* largest number of Structs given to the Config whose life is followed
MaxHeld == 2

\* ss.save() by the user, on a Struct that was given to the Config: the
\* file of the Struct holds its content
UserSave ==
    /\ cfg.exists
    /\ \E i \in 1..Len(held.user) :
          disk' = [k \in DOMAIN disk \cup {held.ukey[i]} |->
                      IF k = held.ukey[i] THEN heap[held.user[i]] ELSE disk[k]]
    /\ UNCHANGED <<heap, held, ccopy, varsConfig, varsInside, varsStruct, varsRays, varsSample>>

\* ss.set_color(color) by the user, on a Struct that was given to the Config
UserSetColor ==
    /\ cfg.exists
    /\ \E i \in 1..Len(held.user), color \in {0, 1} :
          /\ heap[held.user[i]].color # color
          /\ heap' = [heap EXCEPT ![held.user[i]] = Struct_set_color(@, color)]
    /\ UNCHANGED <<held, disk, ccopy, varsConfig, varsInside, varsStruct, varsRays, varsSample>>

\* cfg.strip(strip, force=force)
ConfigStrip(strip, force) ==
    /\ cfg.exists
    /\ \E clsOrd \in ClassOrders(cfg.lCls) :
       \E r \in {Config_strip(cfg, held.cfg, heap, disk, strip, force, clsOrd)} :
          /\ cfg' = r.obj
          /\ held' = [held EXCEPT !.cfg = r.ref]
          /\ heap' = Collect(r.heap, [held EXCEPT !.cfg = r.ref])
          /\ clast' = [op |-> "strip", exc |-> r.exc, arg |-> <<cfg.strip, strip>>]
    /\ UNCHANGED <<cout, disk, ccopy, varsInside, varsStruct, varsRays, varsSample>>

\* cfg.add_extraprop(key, val)
ConfigAddExtraprop ==
    /\ cfg.exists
    /\ \E key \in {"visible", "compute"}, val \in {FALSE},
          clsOrd \in ClassOrders(cfg.lCls) :
       \E r \in {Config_add_extraprop(cfg, key, val)} :
       \E da \in {Config_dynamicattr(r.obj.attr, r.obj.lorder, held.cfg, clsOrd)} :
          /\ cfg' = IF r.exc = NoExc THEN [r.obj EXCEPT !.attr = da.attr] ELSE cfg
          /\ clast' = [op |-> "add_extraprop",
                       exc |-> IF r.exc # NoExc THEN r.exc.type ELSE da.exc,
                       arg |-> <<key, val>>]
    /\ UNCHANGED <<cout, varsLife, varsInside, varsStruct, varsRays, varsSample>>

\* obj = cfg.copy()
ConfigCopy ==
    /\ cfg.exists /\ ~ccopy.exists
    /\ \E r \in {Config_copy(cfg, held.cfg, heap)} :
          /\ ccopy' = r.obj
          /\ held' = [held EXCEPT !.copy = r.ref]
          /\ heap' = r.heap
          /\ clast' = [op |-> "copy", exc |-> "none", arg |-> << >>]
    /\ UNCHANGED <<cfg, cout, disk, varsInside, varsStruct, varsRays, varsSample>>

\* obj.<Cls>.<Name>.set_color(color) and obj.set_visible(val) on the copy
CopyMutate ==
    /\ ccopy.exists
    /\ \/ \E k \in DOMAIN held.copy, color \in {0, 1} :
             /\ held.copy[k] # 0
             /\ heap[held.copy[k]].color # color
             /\ heap' = [heap EXCEPT ![held.copy[k]] = Struct_set_color(@, color)]
             /\ ccopy' = ccopy
       \/ \E val \in BOOLEAN :
             /\ ccopy.nStruct > 0
             /\ ccopy' = [ccopy EXCEPT !.dextra["visible"] =
                                          [k \in DOMAIN ccopy.dStruct |-> val]]
             /\ ccopy' # ccopy
             /\ heap' = heap
    /\ UNCHANGED <<held, disk, varsConfig, varsInside, varsStruct, varsRays, varsSample>>

\* the Structs of the Config whose life is followed: one Struct per key
LifeStructs == {S \in ConfigStructs : S.Cls = "PlasmaDomain" \/ S.Poly = PolyEll}

LifeConstruct ==
    \E l \in SeqsUpTo(LifeStructs, MaxHeld) : Config_construct(l)

LifeStrip == \E strip \in 0..3, force \in BOOLEAN : ConfigStrip(strip, force)

InitConfigLife ==
    /\ frame2D = "error" /\ sObj = Struct_new("Ves", "none", "Tor", PolyBox, << >>)
    /\ qry = NoQuery /\ st = NoStructOp /\ sl = NoStructLife /\ smp = NoSampling
    /\ cfg = NoConfig /\ clast = NoOp /\ cout = NoOut
    /\ heap = NoHeap /\ held = NoHeld /\ disk = NoDisk /\ ccopy = NoConfig
    /\ kern = KernDefault /\ rays = NoRays /\ rlast = NoRaysOp /\ nops = 0
    /\ base = "absent" /\ sout = NoSample1D /\ rstr = NoRaysStrip

NextConfigLife ==
    \/ LifeConstruct
    \/ UserSave
    \/ LifeStrip
    \/ ConfigAddExtraprop

SpecConfigLife == InitConfigLife /\ [][NextConfigLife]_vars

\* the copies: the Config and the Structs it was given, the Config and its copy
NextConfigCopy ==
    \/ LifeConstruct
    \/ UserSetColor
    \/ ConfigCopy
    \/ CopyMutate

SpecConfigCopy == InitConfigLife /\ [][NextConfigCopy]_vars

\* every Struct of the Config is held as an object below level 3
Whole == cfg.strip < 3 => \A k \in DOMAIN held.cfg : held.cfg[k] # 0
\* every Struct of the Config has its file
Saved == \A k \in DOMAIN held.cfg : k \in DOMAIN disk
Nbytes == Config_get_nbytes(cfg, held.cfg, heap)

\* a step that is a call of strip, one level up or down, on a Config that
\* holds at least one Struct
StripUp(strip, force) ==
    /\ strip = cfg.strip + 1 /\ cfg.nStruct > 0 /\ Whole
    /\ clast'.op = "strip" /\ ConfigStrip(strip, force)
StripDown(strip, force) ==
    /\ strip = cfg.strip - 1 /\ cfg.nStruct > 0 /\ Whole
    /\ clast'.op = "strip" /\ ConfigStrip(strip, force)

C18_KeysAndAccessors ==
    (cfg.exists /\ \A k \in DOMAIN held.cfg : held.cfg[k] # 0) =>
        /\ \A pp \in cfg.lprop : DOMAIN cfg.dextra[pp] = DOMAIN cfg.dStruct
        /\ DOMAIN held.cfg = DOMAIN cfg.dStruct
        /\ \A k \in DOMAIN cfg.dStruct : k[1] \in cfg.attr

\* what the Config holds, and what its copy holds
ConfigContent == Config_to_dict(cfg, held.cfg, heap)
CopyContent == Config_to_dict(ccopy, held.copy, heap)

-----------------------------------------------------------------------------
(* Sampling of the rays (SpecRaysSample) *)

\* largest resolution asked of get_sample: dl in 'abs' mode, 1/dl of the
\* length in 'rel' mode
MaxDl == 3

\* the rays that are sampled: one or two rays through the vessel
SampledRays ==
    { Rays_init(KernDefault,
                [kind |-> "Du", D |-> Cyclic(RayOrigins, o, n),
                 u |-> <<RayDirs[1]>>, pinhole |-> <<0, 0, 0>>],
                c, None, None).r :
          o \in 1..Len(RayOrigins), n \in 1..2, c \in {CfgFull, CfgCore} }

\* the intervals asked: None, inside, across and outside the rays' paths
SampledDL == {None, Some(<<0, 1>>), Some(<<2, 5>>), Some(<<4, 20>>), Some(<<20, 30>>)}

\* rays.get_sample(dl, dlMode=dlMode, DL=DL, method=method), once
RaysGetSample ==
    /\ sout.op = "none"
    /\ rays.exists /\ rays.kMin.set /\ rays.kMax.set
    /\ \E dl \in 1..MaxDl, dlMode \in {"abs", "rel"}, DL \in SampledDL,
          method \in {"sum", "simps", "romb"} :
       \E res \in {Rays_get_sample(base, rays, dl, dlMode, DL, method)} :
          sout' = [op |-> "get_sample", exc |-> res.exc, dl |-> dl, dlMode |-> dlMode,
                   DL |-> DL, method |-> method, out |-> res.out]
    /\ UNCHANGED <<base, rstr, varsRays, varsInside, varsStruct, varsConfig, varsLife>>

\* rays.calc_signal(ff, dl=dl, dlMode=dlMode, DL=DL, method=method,
\* plot=False, out=np.ndarray), ff being 1 everywhere, once
RaysCalcSignal ==
    /\ sout.op = "none"
    /\ rays.exists /\ rays.kMin.set /\ rays.kMax.set
    /\ \E dl \in 1..MaxDl, dlMode \in {"abs", "rel"}, DL \in SampledDL,
          method \in {"sum", "simps", "romb"} :
       \E res \in {Rays_calc_signal(base, rays, DL)} :
          sout' = [op |-> "calc_signal", exc |-> res.exc, dl |-> dl, dlMode |-> dlMode,
                   DL |-> DL, method |-> method, out |-> res.out]
    /\ UNCHANGED <<base, rstr, varsRays, varsInside, varsStruct, varsConfig, varsLife>>

\* the names asked to select
SelectTouch == {None, Some(<<"PFC", "In">>), Some(<<"PFC", "Out">>)}

\* rays.select(touch=touch, log=log, out=out), once
RaysSelect ==
    /\ sout.op = "none"
    /\ rays.exists /\ rays.indout.set
    /\ \E touch \in SelectTouch, log \in {"any", "not"}, out \in {"int", "bool"} :
       \E res \in {Rays_select(rays, touch, log, out)} :
          sout' = [op |-> "select", exc |-> res.exc, touch |-> touch, log |-> log,
                   kind |-> out, out |-> res.out]
    /\ UNCHANGED <<base, rstr, varsRays, varsInside, varsStruct, varsConfig, varsLife>>

InitRaysSample ==
    /\ frame2D = "error" /\ sObj = Struct_new("Ves", "none", "Tor", PolyBox, << >>)
    /\ qry = NoQuery /\ st = NoStructOp /\ sl = NoStructLife /\ smp = NoSampling
    /\ cfg = NoConfig /\ clast = NoOp /\ cout = NoOut
    /\ heap = NoHeap /\ held = NoHeld /\ disk = NoDisk /\ ccopy = NoConfig
    /\ kern = KernDefault /\ rlast = NoRaysOp /\ nops = 0
    /\ rays \in {r \in SampledRays : r.exists}
    /\ base \in {"absent", "present"} /\ sout = NoSample1D /\ rstr = NoRaysStrip

NextRaysSample == RaysGetSample \/ RaysCalcSignal \/ RaysSelect

SpecRaysSample == InitRaysSample /\ [][NextRaysSample]_vars

\* C20: get_sample returns, and for every ray with kMin and kMax known
\* every position k satisfies kMin - res <= k <= kMax + res, res = L / N
\* being the effective resolution; in 'abs' mode res <= dl
C20_SamplesWithinBounds ==
    sout.op = "get_sample" =>
        /\ sout.exc = NoExc
        /\ \A i \in 1..rays.nRays :
              (IsNum(rays.kMin.v[i]) /\ IsNum(rays.kMax.v[i])) =>
                 LET s == sout.out[i]
                 IN  /\ \A j \in 1..Len(s.num) :
                            /\ 2 * s.N * rays.kMin.v[i][2] - 2 * s.L <= s.num[j]
                            /\ s.num[j] <= 2 * s.N * rays.kMax.v[i][2] + 2 * s.L
                     /\ (sout.dlMode = "abs" => s.L <= sout.dl * s.N)

-----------------------------------------------------------------------------
(* Claims on a failed Config.strip(3) (SpecConfigLife) *)

\* a step that is a call of strip(3, force) on a Config whose Structs are
\* objects, one of them without its saved file
StripUnsaved(force) ==
    /\ cfg.strip < 3 /\ cfg.nStruct > 0 /\ Whole /\ ~Saved
    /\ clast'.op = "strip" /\ ConfigStrip(3, force)

\* C23: strip(3) on a Config holding a Struct without saved file raises an
\* exception with force=False; with force=True it proceeds, every Struct
\* is replaced by its path and the level is 3
C23_ForceProceeds ==
    [][/\ StripUnsaved(FALSE) => clast'.exc = "Exception"
       /\ StripUnsaved(TRUE) =>
              /\ clast'.exc = "none" /\ cfg'.strip = 3
              /\ \A k \in DOMAIN held'.cfg : held'.cfg[k] = 0]_vars

\* C30: a call of strip(3) that raises for a missing file leaves the Config
\* as it was: no Struct replaced by a path, the accessors and the level
\* unchanged
C30_FailedStripAtomic ==
    [][(StripUnsaved(FALSE) /\ clast'.exc = "Exception") =>
           /\ held'.cfg = held.cfg
           /\ cfg'.attr = cfg.attr /\ cfg'.strip = cfg.strip]_vars

\* C29: on a Config that holds Structs, add_extraprop(key, val) succeeds,
\* key is then a registered property and its value is val for every Struct
C29_NewPropertyRegistered ==
    (cfg.exists /\ cfg.nStruct > 0 /\ clast.op = "add_extraprop") =>
        /\ clast.exc = "none"
        /\ clast.arg[1] \in cfg.lprop
        /\ \A i \in 1..cfg.nStruct :
              Config_get_extraprop(cfg, clast.arg[1])[i] = clast.arg[2]


-----------------------------------------------------------------------------
(* Claims on Etendues and Surfaces (SpecRays) *)

\* C28 (as stated): Etendues and Surfaces of a Rays are stored
\* independently: a Rays constructed with Etendues = E and Surfaces = S
\* returns E as its Etendues and S as its Surfaces, whatever set_dconfig or
\* set_compute did since; (E, S) is one of the pairs of ESInputs.
C28_EtenduesSurfacesIndependent ==
    rays.exists =>
        \E es \in ESInputs : rays.Etendues = es[1] /\ rays.Surfaces = es[2]

\* C26 (as stated): the quantities of the minimal major radius are toroidal
\* only: once the construction of a Rays has stored kMin and kMax, for a
\* Config of Type 'Lin' it completes without error, kRMin, PRMin and RMin
\* are left unset and PkMin, PkMax are computed; for Type 'Tor' kRMin,
\* PRMin and RMin are all computed.
C26_MinimalRadiusToroidalOnly ==
    (rlast.op = "init" /\ rays.kMax.set) =>
        /\ rays.config.Type = "Lin" =>
               /\ rlast.exc = NoExc
               /\ ~rays.kRMin.set /\ ~rays.PRMin.set /\ ~rays.RMin.set
               /\ rays.PkMin.set /\ rays.PkMax.set
        /\ rays.config.Type = "Tor" =>
               rays.kRMin.set /\ rays.PRMin.set /\ rays.RMin.set

-----------------------------------------------------------------------------
(* Claims on calc_signal (SpecRaysSample) *)

\* C25 (as stated): calc_signal returns one value per ray: NaN for every
\* ray whose interval of integration is invalid (a bound that is NaN or
\* infinite, or upper bound minus lower bound <= 0) and the integrated
\* value for every other ray; an invalid ray is never given to the
\* integrator and never aborts the call.
C25_InvalidRaysGiveNaN ==
    sout.op = "calc_signal" =>
        /\ sout.exc = NoExc
        /\ Len(sout.out) = rays.nRays
        /\ \A i \in 1..rays.nRays :
              LET d == Rays_get_sample_DL(rays.kMin.v[i], rays.kMax.v[i], sout.DL)
                  invalid == \/ ~IsNum(d[1]) \/ ~IsNum(d[2])
                             \/ d[2][2] - d[1][2] <= 0
              IN  /\ invalid => IsNaN(sout.out[i].sig) /\ ~sout.out[i].passed
                  /\ ~invalid => sout.out[i].sig = Num(d[2][2] - d[1][2])

-----------------------------------------------------------------------------
(* Claims on select (SpecRaysSample) *)

\* the value of indout of the rays that end on the Struct named key: the
\* rank of the Struct among the obstructions computed
TouchIndex(key) ==
    CHOOSE t \in 1..Len(Rays_obstructions(rays)) : Key(Rays_obstructions(rays)[t]) = key

\* C24 (as stated): select(touch='Cls_Name'), the Struct named being one of
\* those computed, returns exactly the rays whose exit recorded in indout is
\* on this Struct; log='not' returns the complement, and out=int returns
\* the indices of the True entries of the mask that out=bool returns.
C24_SelectTouch ==
    (/\ sout.op = "select" /\ sout.touch.set
     /\ \E t \in 1..Len(Rays_obstructions(rays)) :
            Key(Rays_obstructions(rays)[t]) = sout.touch.v) =>
        LET hit == [i \in 1..rays.nRays |-> rays.indout.v[i] = TouchIndex(sout.touch.v)]
            mask == [i \in 1..rays.nRays |-> IF sout.log = "not" THEN ~hit[i] ELSE hit[i]]
        IN  /\ sout.exc = NoExc
            /\ sout.out = IF sout.kind = "int" THEN Nonzero(mask) ELSE mask

-----------------------------------------------------------------------------
(* The strip levels of a Rays (SpecRaysStrip) *)

\* rays.strip(strip)
RaysStrip ==
    /\ rays.exists
    /\ \E strip \in 0..4, clsOrd \in ClassOrders(rays.config.lCls) :
       \E res \in {Rays_strip(rays, rstr, held.cfg, heap, disk, strip, clsOrd)} :
          /\ rays' = res.r
          /\ rstr' = [res.s EXCEPT !.op = "strip", !.exc = res.exc, !.from = rstr.strip]
          /\ held' = [held EXCEPT !.cfg = res.ref]
          /\ heap' = Collect(res.heap, [held EXCEPT !.cfg = res.ref])
    /\ UNCHANGED <<disk, ccopy, kern, rlast, nops, base, sout,
                   varsInside, varsStruct, varsConfig>>

\* a Rays just built, with or without sino_RefPt, on a Config whose Structs
\* are objects of the Config; the Structs and the Config were saved or not
InitRaysStrip ==
    /\ frame2D = "error" /\ sObj = Struct_new("Ves", "none", "Tor", PolyBox, << >>)
    /\ qry = NoQuery /\ st = NoStructOp /\ sl = NoStructLife /\ smp = NoSampling
    /\ cfg = NoConfig /\ clast = NoOp /\ cout = NoOut
    /\ ccopy = NoConfig
    /\ kern = KernDefault /\ rlast = NoRaysOp /\ nops = 0
    /\ rays \in {r \in SampledRays : r.exists}
    /\ base = "absent" /\ sout = NoSample1D
    /\ \E RefPt \in BOOLEAN, saved \in BOOLEAN :
          rstr = [NoRaysStrip EXCEPT !.dsino = Rays_set_dsino(RefPt),
                                     !.file = IF saved THEN rays.config ELSE NoConfig]
    /\ held = [NoHeld EXCEPT !.cfg = [k \in RangeOf(rays.config.lorder) |->
                  CHOOSE i \in 1..Len(rays.config.lorder) : rays.config.lorder[i] = k]]
    /\ heap = [i \in 1..Len(rays.config.lorder) |-> Struct_object]
    /\ disk \in {NoDisk, [k \in RangeOf(rays.config.lorder) |-> Struct_object]}

NextRaysStrip == RaysStrip

SpecRaysStrip == InitRaysStrip /\ [][NextRaysStrip]_vars

\* the derived points of dgeom of the Rays are all present / all absent
RaysPts == rays.PkMin.set /\ rays.PkMax.set /\ rays.PRMin.set /\ rays.RMin.set
RaysNoPts == ~rays.PkMin.set /\ ~rays.PkMax.set /\ ~rays.PRMin.set /\ ~rays.RMin.set

\* C21 (as stated): after a strip(n) that returned, the fields present are
\* determined by n alone, whatever the strip calls before: n = 0 keeps
\* everything; n = 1 drops only the derived points of dgeom and keeps kRMin
\* and the derived fields of dsino; n >= 2 also drops kRMin and reduces
\* dsino to RefPt and k; n = 4 replaces the Config by the path of its file.
C21_StripLevelDeterminesFields ==
    (rstr.op = "strip" /\ rstr.exc = "none") =>
        /\ rstr.strip = 0 =>
               RaysPts /\ rays.kRMin.set /\ rstr.dsino.extra = rstr.dsino.k
        /\ rstr.strip = 1 =>
               RaysNoPts /\ rays.kRMin.set /\ rstr.dsino.extra = rstr.dsino.k
        /\ rstr.strip >= 2 =>
               RaysNoPts /\ ~rays.kRMin.set /\ ~rstr.dsino.extra
        /\ rstr.dsino.k = rstr.dsino.RefPt
        /\ rays.kMin.set /\ rays.kMax.set /\ rays.indout.set
        /\ (rstr.strip = 4) = ~rays.config.exists

-----------------------------------------------------------------------------
(* A Struct through strip (SpecStructLife) *)

\* the polygons given: a box as (N,2) and as (2,N), an L-shaped contour
LifePolys == << Arr2(PolyBox, 2), Transpose(Arr2(PolyBox, 2)), Arr2(PolyEll, 2) >>

\* the limits given: None, a pair, two pairs
LifeLims == << NoArr, Arr1(<<-90, 0>>), Arr2(<< <<0, 90>>, <<180, 270>> >>, 2) >>

\* tofu.geom.<Cls>(...); Ves and PlasmaDomain have no argument mobile
StructLifeBuild ==
    /\ ~sl.o.exists /\ sl.last.op = "none"
    /\ \E Cls \in {"Ves", "PlasmaDomain", "PFC"}, Type \in {"Tor", "Lin"},
          p \in 1..Len(LifePolys), l \in 1..Len(LifeLims), mobile \in BOOLEAN,
          RefPt \in {None, Some(<<5, 1>>)}, color \in {0, 1} :
       /\ Cls \in {"Ves", "PlasmaDomain"} => ~mobile
       /\ \E res \in {Struct_init_dicts(Cls, Type, LifePolys[p], LifeLims[l],
                                        mobile, RefPt, color)} :
             sl' = [o |-> res.o, mobile |-> mobile, trip |-> NoStructLife.trip,
                    last |-> [op |-> "init", exc |-> res.exc, ret |-> "none", from |-> 0]]
    /\ UNCHANGED <<st, smp, varsInside, varsConfig, varsRays, varsLife, varsSample>>

\* obj.strip(strip); trip remembers the dictionaries before a strip(n) made
\* at level 0, until another level than 0 is asked
StructLifeStrip ==
    /\ sl.o.exists
    /\ \E strip \in 0..2 :
          sl' = [sl EXCEPT !.o = Struct_strip_dicts(sl.o, strip),
                           !.trip = IF sl.o.strip = 0
                                    THEN [n |-> strip, before |-> Struct_dicts(sl.o)]
                                    ELSE IF strip = 0 THEN @
                                    ELSE NoStructLife.trip,
                           !.last = [op |-> "strip", exc |-> "none", ret |-> "none",
                                     from |-> sl.o.strip]]
    /\ UNCHANGED <<st, smp, varsInside, varsConfig, varsRays, varsLife, varsSample>>

\* obj.isMobile()
StructLifeIsMobile ==
    /\ sl.o.exists
    /\ \E res \in {Struct_isMobile(sl.o)} :
          sl' = [sl EXCEPT !.last = [op |-> "isMobile", exc |-> res.exc,
                                     ret |-> res.ret, from |-> sl.o.strip]]
    /\ UNCHANGED <<st, smp, varsInside, varsConfig, varsRays, varsLife, varsSample>>

InitStructLife ==
    /\ frame2D = "error" /\ sObj = Struct_new("Ves", "none", "Tor", PolyBox, << >>)
    /\ qry = NoQuery /\ st = NoStructOp /\ sl = NoStructLife /\ smp = NoSampling
    /\ cfg = NoConfig /\ clast = NoOp /\ cout = NoOut
    /\ heap = NoHeap /\ held = NoHeld /\ disk = NoDisk /\ ccopy = NoConfig
    /\ kern = KernDefault /\ rays = NoRays /\ rlast = NoRaysOp /\ nops = 0
    /\ base = "absent" /\ sout = NoSample1D /\ rstr = NoRaysStrip

NextStructLife ==
    \/ StructLifeBuild
    \/ StructLifeStrip
    \/ StructLifeIsMobile

SpecStructLife == InitStructLife /\ [][NextStructLife]_vars

\* C22 (as stated): strip(n), n in {1, 2}, followed by strip(0) is a round
\* trip: every derived field of dgeom and dsino is present again with the
\* value it had before, and the kept inputs (Poly, Lim, mobile, RefPt, nP,
\* lSymbols, color) are unchanged.
C22_StripRoundTrip ==
    (/\ sl.last.op = "strip" /\ sl.o.strip = 0
     /\ sl.trip.n \in {1, 2} /\ sl.last.from = sl.trip.n) =>
        /\ sl.o.dgeom.derived.set /\ sl.o.dsino.Env.set
        /\ Struct_dicts(sl.o) = sl.trip.before

\* C27 (as stated): isMobile() returns the mobile flag given at
\* construction (True for a PFC built with mobile=True, False otherwise),
\* and a Ves or a PlasmaDomain is never mobile, whatever was done before.
C27_IsMobileReturnsFlag ==
    /\ sl.last.op = "isMobile" =>
           /\ sl.last.exc = "none"
           /\ sl.last.ret = IF sl.mobile THEN "True" ELSE "False"
    /\ (sl.o.exists /\ sl.o.Cls \in {"Ves", "PlasmaDomain"}) => ~sl.o.dgeom.mobile

====
